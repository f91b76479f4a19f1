------------------------------ MODULE ShellEnv ------------------------------
(***************************************************************************)
(* The environment of the shell (busybox/shell/env.c, sh.c, echo.c): two   *)
(* parallel arrays, one of names and one of values.                        *)
(*                                                                         *)
(* A free slot has no name.  env_set takes the first slot that is free or  *)
(* has the name, whichever comes first, so a variable can end up in two    *)
(* slots; env_unset leaves a hole.  A search with strcmp (env_unset, echo) *)
(* dereferences the name of every slot it passes and faults at a hole.     *)
(*                                                                         *)
(* These are operators on an environment e, a record of the two arrays;    *)
(* module Shell has the processes that keep one each.  The text of a value *)
(* is left out (env_set follows every word by a blank).  malloc succeeds.  *)
(***************************************************************************)
EXTENDS Naturals, FiniteSets, FiniteSetsExt

CONSTANTS
    MAX_ENV,    \* slots of the environment (sh.h:16)
    UserNames,  \* names of variables the shell does not define
    Values,     \* values a user gives
    Login,      \* a value that login gave
    NULL        \* no name, or no value

\* Slots of the shell's own variables (sh.h:7-14).
HOME == 3
PATH == 4
PWD == 5
RET == 6
SHLL == 7

ASSUME MaxEnvAssumption == MAX_ENV \in Nat /\ MAX_ENV > SHLL

OwnName ==
    [i \in 0..SHLL |->
        <<"USER", "UID", "GID", "HOME", "PATH", "PWD", "?", "SHELL">>[i + 1]]
OwnNames == {OwnName[i] : i \in 0..SHLL}
Names == OwnNames \cup UserNames

ASSUME NamesAssumption == UserNames \cap OwnNames = {} /\ NULL \notin Names

\* What a command returns, as it is stored in "?".
Status == {"0", "EINVAL", "E2BIG", "other"}

ASSUME ValuesAssumption ==
    {NULL, Login} \cap (Values \cup Status) = {} /\ NULL # Login

Slots == 0..(MAX_ENV - 1)

EnvType ==
    [name : [Slots -> Names \cup {NULL}],
     value : [Slots -> Values \cup Status \cup {Login, NULL}]]

\* login passes seven strings, then NULL, which init_env takes for SHELL.
\* Values of slots without a name are not initialised; no one reads them.
InitEnv ==
    [name |-> [i \in Slots |-> IF i <= SHLL THEN OwnName[i] ELSE NULL],
     value |-> [i \in Slots |-> IF i < SHLL THEN Login ELSE NULL]]

-----------------------------------------------------------------------------
\* Where a search for n ends: the first slot that has the name or none, or
\* past the table.
Stop(e, n) == Min({i \in Slots : e.name[i] \in {n, NULL}} \cup {MAX_ENV})

Has(e, i, n) == i \in Slots /\ e.name[i] = n

\* strcmp is given a null pointer before the name is found.
SearchFaults(e, n) == Has(e, Stop(e, n), NULL)

\* Mistake: of several free slots the last is taken.
EnvSetLast(e, n, v) ==
    LET i == IF Has(e, Stop(e, n), NULL)
             THEN Max({j \in Slots : e.name[j] = NULL}) ELSE Stop(e, n)
    IN [name |-> [e.name EXCEPT ![i] = n], value |-> [e.value EXCEPT ![i] = v]]

\* Mistake: a full table is written past its end.
EnvSetPast(e, n, v) ==
    LET put(a, x) == [i \in Slots \cup {Stop(e, n)} |->
                        IF i = Stop(e, n) THEN x ELSE a[i]]
    IN [name |-> put(e.name, n), value |-> put(e.value, v)]

\* env_set: EXCEPT does nothing when the search ended past the table.
EnvSet(e, n, v) ==
    [name |-> [e.name EXCEPT ![Stop(e, n)] = n],
     value |-> [e.value EXCEPT ![Stop(e, n)] = v]]

EnvSetStatus(e, n) == IF Stop(e, n) = MAX_ENV THEN "E2BIG" ELSE "0"

\* Mistake: the last of them is not protected.
ProtectedBelow(i) == i \in 0..(PWD - 1)

Protected(i) == i \in 0..PWD

Unsets(e, n) == Has(e, Stop(e, n), n) /\ ~Protected(Stop(e, n))

\* env_unset, if the search does not fault.
EnvUnset(e, n) ==
    IF Unsets(e, n)
    THEN [name |-> [e.name EXCEPT ![Stop(e, n)] = NULL],
          value |-> [e.value EXCEPT ![Stop(e, n)] = NULL]]
    ELSE e

EnvUnsetStatus(e, n) == IF Unsets(e, n) THEN "0" ELSE "EINVAL"
=============================================================================
