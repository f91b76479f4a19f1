---------------------------- MODULE ShellProofs ----------------------------
(***************************************************************************)
(* Theorems of the shell's environment, for tables of any size, any names  *)
(* and values, and any number of processes and command lines.              *)
(***************************************************************************)
EXTENDS Shell, FiniteSetTheorems, TLAPS

\* The login variables and "?" have their slots and a value.
EnvFixed(e) ==
    /\ \A i \in 0..PWD : \A j \in Slots : e.name[j] = OwnName[i] <=> i = j
    /\ e.name[RET] = OwnName[RET]
    /\ \A i \in 0..RET : e.value[i] # NULL

\* The first slot that has the name n has the value g[n].
Found(e, n, v) ==
    \E i \in Slots : /\ e.name[i] = n /\ e.value[i] = v
                     /\ \A j \in 0..(i - 1) : e.name[j] # n

EnvFinds(e, g) ==
    \A n \in Used \ {OwnName[RET]} : g[n] # NULL => Found(e, n, g[n])

\* What holds of the environment e of a process, given g in it.
EnvOK(e, g) ==
    /\ e \in EnvType /\ g \in [Used -> Values \cup {NULL}]
    /\ EnvFixed(e) /\ EnvFinds(e, g)

\* The inductive invariant.
Inv == TypeOK /\ \A s \in Shells : EnvFixed(env[s]) /\ EnvFinds(env[s], given[s])

-----------------------------------------------------------------------------
(* The search *)

\* A set of naturals has a least element: of the intervals below its members
\* one has none of the others as a proper subset.
LEMMA LeastMember ==
  ASSUME NEW S, S \subseteq Nat, S # {}
  PROVE  \E x \in S : \A y \in S : x <= y
  <1> DEFINE T == {1..n : n \in S}
  <1> DEFINE R == StrictSubsetOrdering(Nat)
  <1>1. T \subseteq FiniteSubsetsOf(Nat)
    <2> SUFFICES ASSUME NEW n \in S PROVE 1..n \in FiniteSubsetsOf(Nat)
      OBVIOUS
    <2>1. IsFiniteSet(1..n)
      BY FS_Interval
    <2>2. 1..n \subseteq Nat
      OBVIOUS
    <2> QED BY <2>1, <2>2 DEF FiniteSubsetsOf
  <1>2. \E t \in T : \A u \in T : ~ (<<u, t>> \in R)
    <2>1. T # {}
      OBVIOUS
    <2>2. IsWellFoundedOn(R, FiniteSubsetsOf(Nat))
      BY FS_StrictSubsetOrderingWellFounded
    <2> HIDE DEF T, R
    <2> QED BY <1>1, <2>1, <2>2, WFMin
  <1>3. PICK x \in S : \A y \in S : ~ (<<1..y, 1..x>> \in R)
    BY <1>2
  <1>4. ASSUME NEW y \in S, y < x
        PROVE  <<1..y, 1..x>> \in R
    <2>1. x \in 1..x /\ x \notin 1..y /\ 1..y \subseteq 1..x
      BY <1>4
    <2>2. 1..x \subseteq Nat /\ 1..y \subseteq Nat
      OBVIOUS
    <2> QED BY <2>1, <2>2 DEF StrictSubsetOrdering
  <1>5. \A y \in S : ~ (y < x)
    BY <1>3, <1>4
  <1> QED BY <1>5

\* A search ends at the first slot that has the name or none, or past them.
LEMMA StopLemma ==
  ASSUME NEW e, NEW n
  PROVE  /\ Stop(e, n) \in 0..MAX_ENV
         /\ Stop(e, n) \in Slots => e.name[Stop(e, n)] \in {n, NULL}
         /\ Stop(e, n) \notin Slots => Stop(e, n) = MAX_ENV
         /\ \A j \in Slots : j < Stop(e, n) => e.name[j] \notin {n, NULL}
  <1> DEFINE S == {i \in Slots : e.name[i] \in {n, NULL}} \cup {MAX_ENV}
  <1>1. S \subseteq 0..MAX_ENV /\ Slots \subseteq Nat /\ MAX_ENV \notin Slots
    BY MaxEnvAssumption DEF Slots
  <1>2. \E x \in S : \A y \in S : x <= y
    <2>1. S \subseteq Nat /\ S # {}
      BY <1>1, MaxEnvAssumption
    <2> HIDE DEF S
    <2> QED BY <2>1, LeastMember
  <1>3. Min(S) \in S /\ \A y \in S : Min(S) <= y
    BY <1>2 DEF Min
  <1>4. Stop(e, n) = Min(S)
    BY DEF Stop
  <1>5. \A j \in Slots : j < Min(S) => j \notin S
    BY <1>1, <1>3
  <1> QED BY <1>1, <1>3, <1>4, <1>5, MaxEnvAssumption DEF Slots

-----------------------------------------------------------------------------
(* The commands *)

LEMMA OwnNameLemma ==
  /\ \A i, j \in 0..SHLL : OwnName[i] = OwnName[j] => i = j
  /\ \A i \in 0..SHLL : OwnName[i] \in Names /\ OwnName[i] # NULL
  /\ 0..SHLL \subseteq Slots
  <1>1. /\ OwnName[0] = "USER" /\ OwnName[1] = "UID" /\ OwnName[2] = "GID"
        /\ OwnName[3] = "HOME" /\ OwnName[4] = "PATH" /\ OwnName[5] = "PWD"
        /\ OwnName[6] = "?" /\ OwnName[7] = "SHELL"
    BY SMT DEF OwnName, SHLL
  <1>2. \A i \in 0..SHLL : i \in {0, 1, 2, 3, 4, 5, 6, 7}
    BY DEF SHLL
  <1>3. \A i, j \in 0..SHLL : OwnName[i] = OwnName[j] => i = j
    BY <1>1, <1>2, SMT
  <1>4. \A i \in 0..SHLL : OwnName[i] \in Names
    BY DEF Names, OwnNames
  <1>5. 0..SHLL \subseteq Slots
    BY MaxEnvAssumption DEF Slots, SHLL
  <1> QED BY <1>3, <1>4, <1>5, NamesAssumption

LEMMA InitEnvOK == EnvOK(InitEnv, NothingGiven)
  <1>1. InitEnv \in EnvType
    <2>1. \A i \in Slots : i <= SHLL => i \in 0..SHLL
      BY DEF Slots, SHLL
    <2> QED BY <2>1, OwnNameLemma DEF InitEnv, EnvType
  <1>2. EnvFixed(InitEnv)
    <2>1. \A i \in Slots : i <= SHLL <=> i \in 0..SHLL
      BY DEF Slots, SHLL
    <2>2. \A i \in 0..PWD : i \in 0..SHLL /\ i < SHLL
      BY DEF PWD, SHLL
    <2>3. \A i \in 0..RET : i \in 0..SHLL /\ i < SHLL /\ RET \in 0..RET
      BY DEF RET, SHLL
    <2>4. Login # NULL
      BY ValuesAssumption
    <2>5. ASSUME NEW i \in 0..PWD, NEW j \in Slots
          PROVE  InitEnv.name[j] = OwnName[i] <=> i = j
      BY <2>1, <2>2, OwnNameLemma DEF InitEnv
    <2>6. InitEnv.name[RET] = OwnName[RET]
      BY <2>1, <2>3, OwnNameLemma DEF InitEnv, RET
    <2>7. \A i \in 0..RET : InitEnv.value[i] # NULL
      BY <2>3, <2>4, OwnNameLemma DEF InitEnv
    <2> QED BY <2>5, <2>6, <2>7 DEF EnvFixed
  <1>3. NothingGiven \in [Used -> Values \cup {NULL}]
        /\ EnvFinds(InitEnv, NothingGiven)
    BY DEF NothingGiven, EnvFinds
  <1> QED BY <1>1, <1>2, <1>3 DEF EnvOK

\* A search stops at a login variable, or at "?", only if that is its name.
LEMMA StopFixed ==
  ASSUME NEW e, EnvFixed(e), NEW n, Stop(e, n) \in 0..RET
  PROVE  n = OwnName[Stop(e, n)]
  <1>1. 0..RET \subseteq 0..SHLL /\ \A i \in 0..RET : i = RET \/ i \in 0..PWD
    BY DEF RET, SHLL, PWD
  <1>2. Stop(e, n) \in Slots
    BY <1>1, OwnNameLemma
  <1>3. e.name[Stop(e, n)] = OwnName[Stop(e, n)]
    BY <1>1, <1>2 DEF EnvFixed
  <1> QED BY <1>1, <1>2, <1>3, StopLemma, OwnNameLemma

\* A search for a login variable finds it where it belongs.
LEMMA StopAtLogin ==
  ASSUME NEW e, EnvFixed(e), NEW i \in 0..PWD
  PROVE  Stop(e, OwnName[i]) = i
  <1> DEFINE n == OwnName[i]
  <1>1. i \in Slots /\ i \in 0..RET /\ e.name[i] = n /\ 0..RET \subseteq 0..SHLL
    BY OwnNameLemma DEF EnvFixed, PWD, RET, SHLL
  <1>2. Stop(e, n) <= i
    BY <1>1, StopLemma, MaxEnvAssumption DEF Slots
  <1>3. Stop(e, n) \in 0..RET
    BY <1>1, <1>2, StopLemma, MaxEnvAssumption DEF RET
  <1>4. n = OwnName[Stop(e, n)]
    BY <1>3, StopFixed
  <1> QED BY <1>1, <1>3, <1>4, OwnNameLemma

LEMMA SetOK ==
  ASSUME NEW e, NEW g, EnvOK(e, g), NEW n \in Used, NEW v \in Values,
         NEW h, h = IF EnvSetStatus(e, n) = "0" THEN [g EXCEPT ![n] = v] ELSE g
  PROVE  EnvOK(EnvSet(e, n, v), h)
  <1> DEFINE i == Stop(e, n)
  <1> DEFINE f == EnvSet(e, n, v)
  <1>0. /\ e.name \in [Slots -> Names \cup {NULL}]
        /\ e.value \in [Slots -> Values \cup Status \cup {Login, NULL}]
        /\ g \in [Used -> Values \cup {NULL}] /\ n \in Names /\ v # NULL
        /\ n # NULL
    BY UsedAssumption, ValuesAssumption, NamesAssumption DEF EnvOK, EnvType
  <1>1. CASE i \notin Slots
    <2>1. i = MAX_ENV
      BY <1>1, StopLemma
    <2>2. f.name = e.name /\ f.value = e.value /\ h = g
      BY <1>0, <1>1, <2>1 DEF EnvSet, EnvSetStatus
    <2>3. f \in EnvType
      BY <1>0, <2>2 DEF EnvSet, EnvType
    <2> QED BY <2>2, <2>3 DEF EnvOK, EnvFixed, EnvFinds, Found
  <1>2. CASE i \in Slots
    <2>1. h = [g EXCEPT ![n] = v]
      BY <1>2, MaxEnvAssumption DEF EnvSetStatus, Slots
    <2>2. f.name = [e.name EXCEPT ![i] = n] /\ f.value = [e.value EXCEPT ![i] = v]
      BY DEF EnvSet
    <2>3. f \in EnvType /\ h \in [Used -> Values \cup {NULL}]
      BY <1>0, <1>2, <2>1 DEF EnvSet, EnvType
    <2>4. EnvFixed(f)
      <3>1. ASSUME NEW j \in 0..PWD, NEW k \in Slots
            PROVE  f.name[k] = OwnName[j] <=> j = k
        <4>1. CASE k # i
          BY <1>0, <2>2, <4>1, <1>2 DEF EnvOK, EnvFixed
        <4>2. CASE k = i
          <5>1. n = OwnName[j] => i = j
            BY StopAtLogin DEF EnvOK
          <5>2. i = j => n = OwnName[j]
            BY StopFixed DEF EnvOK, PWD, RET
          <5> QED BY <1>0, <2>2, <4>2, <5>1, <5>2
        <4> QED BY <4>1, <4>2
      <3>2. f.name[RET] = OwnName[RET]
        <4>1. RET \in 0..RET /\ RET \in Slots
          BY OwnNameLemma DEF RET, SHLL
        <4>2. i = RET => n = OwnName[RET]
          BY <4>1, StopFixed DEF EnvOK
        <4> QED BY <1>0, <2>2, <4>1, <4>2 DEF EnvOK, EnvFixed
      <3>3. \A j \in 0..RET : f.value[j] # NULL
        <4>1. 0..RET \subseteq Slots
          BY OwnNameLemma DEF RET, SHLL
        <4> QED BY <1>0, <2>2, <4>1 DEF EnvOK, EnvFixed
      <3> QED BY <3>1, <3>2, <3>3 DEF EnvFixed
    <2>5. EnvFinds(f, h)
      <3> SUFFICES ASSUME NEW m \in Used \ {OwnName[RET]}, h[m] # NULL
                   PROVE  Found(f, m, h[m])
        BY DEF EnvFinds
      <3>1. CASE m = n
        <4>1. \A j \in 0..(i - 1) : j \in Slots /\ j # i /\ e.name[j] # n
          BY <1>2, StopLemma, MaxEnvAssumption DEF Slots
        <4> QED BY <1>0, <1>2, <2>1, <2>2, <3>1, <4>1 DEF Found
      <3>2. CASE m # n
        <4>1. h[m] = g[m]
          BY <1>0, <2>1, <3>2
        <4>2. PICK k \in Slots : /\ e.name[k] = m /\ e.value[k] = g[m]
                                 /\ \A j \in 0..(k - 1) : e.name[j] # m
          BY <4>1 DEF EnvOK, EnvFinds, Found
        <4>3. k # i
          BY <3>2, <4>2, <1>2, StopLemma, UsedAssumption, NamesAssumption
        <4>4. \A j \in 0..(k - 1) : j \in Slots
          BY MaxEnvAssumption DEF Slots
        <4> QED BY <1>0, <1>2, <2>2, <3>2, <4>1, <4>2, <4>3, <4>4 DEF Found
      <3> QED BY <3>1, <3>2
    <2> QED BY <2>3, <2>4, <2>5 DEF EnvOK
  <1> QED BY <1>1, <1>2

LEMMA UnsetOK ==
  ASSUME NEW e, NEW g, EnvOK(e, g), NEW n \in Used,
         EnvUnset(e, n).value[RET] # NULL,
         NEW h, h = IF Unsets(e, n) THEN [g EXCEPT ![n] = NULL] ELSE g
  PROVE  EnvOK(EnvUnset(e, n), h)
  <1> DEFINE i == Stop(e, n)
  <1> DEFINE f == EnvUnset(e, n)
  <1>0. /\ e.name \in [Slots -> Names \cup {NULL}]
        /\ e.value \in [Slots -> Values \cup Status \cup {Login, NULL}]
        /\ g \in [Used -> Values \cup {NULL}] /\ n \in Names /\ n # NULL
    BY UsedAssumption, NamesAssumption DEF EnvOK, EnvType
  <1>1. CASE ~Unsets(e, n)
    BY <1>1 DEF EnvUnset
  <1>2. CASE Unsets(e, n)
    <2>1. /\ i \in Slots /\ e.name[i] = n /\ i \notin 0..PWD
          /\ h = [g EXCEPT ![n] = NULL]
      BY <1>2 DEF Unsets, Has, Protected
    <2>2. /\ f.name = [e.name EXCEPT ![i] = NULL]
          /\ f.value = [e.value EXCEPT ![i] = NULL]
      BY <1>2 DEF EnvUnset
    <2>3. f \in EnvType /\ h \in [Used -> Values \cup {NULL}]
      BY <1>0, <1>2, <2>1 DEF EnvUnset, EnvType
    <2>4. i \notin 0..RET
      <3>1. i # RET
        BY <1>0, <2>1, <2>2
      <3> QED BY <2>1, <3>1 DEF PWD, RET, Slots
    <2>5. EnvFixed(f)
      <3>1. 0..PWD \subseteq 0..RET /\ 0..RET \subseteq 0..SHLL /\ RET \in 0..RET
        BY DEF PWD, RET, SHLL
      <3>2. \A j \in 0..PWD : \A k \in Slots : f.name[k] = OwnName[j] <=> j = k
        BY <1>0, <2>1, <2>2, <3>1, OwnNameLemma DEF EnvOK, EnvFixed
      <3>3. f.name[RET] = OwnName[RET]
        BY <1>0, <2>2, <2>4, <3>1, OwnNameLemma DEF EnvOK, EnvFixed
      <3>4. \A j \in 0..RET : f.value[j] # NULL
        BY <1>0, <2>2, <2>4, <3>1, OwnNameLemma DEF EnvOK, EnvFixed
      <3> QED BY <3>2, <3>3, <3>4 DEF EnvFixed
    <2>6. EnvFinds(f, h)
      <3> SUFFICES ASSUME NEW m \in Used \ {OwnName[RET]}, h[m] # NULL
                   PROVE  Found(f, m, h[m])
        BY DEF EnvFinds
      <3>1. m # n /\ h[m] = g[m] /\ m # NULL
        BY <1>0, <2>1, UsedAssumption, NamesAssumption
      <3>2. PICK k \in Slots : /\ e.name[k] = m /\ e.value[k] = g[m]
                               /\ \A j \in 0..(k - 1) : e.name[j] # m
        BY <3>1 DEF EnvOK, EnvFinds, Found
      <3>3. k # i /\ \A j \in 0..(k - 1) : j \in Slots
        BY <2>1, <3>1, <3>2, MaxEnvAssumption DEF Slots
      <3> QED BY <1>0, <2>1, <2>2, <3>1, <3>2, <3>3 DEF Found
    <2> QED BY <2>3, <2>5, <2>6 DEF EnvOK
  <1> QED BY <1>1, <1>2

\* Storing the status.
LEMMA StatusOK ==
  ASSUME NEW e, NEW g, EnvOK(e, g), NEW status \in Status
  PROVE  EnvOK([e EXCEPT !.value[RET] = status], g)
  <1> DEFINE f == [e EXCEPT !.value[RET] = status]
  <1>0. /\ e.name \in [Slots -> Names \cup {NULL}]
        /\ e.value \in [Slots -> Values \cup Status \cup {Login, NULL}]
        /\ RET \in Slots /\ 0..RET \subseteq Slots
    BY OwnNameLemma DEF EnvOK, EnvType, RET, SHLL
  <1>1. f.name = e.name /\ f.value = [e.value EXCEPT ![RET] = status]
    BY DEF EnvOK, EnvType
  <1>2. f \in EnvType
    BY <1>0 DEF EnvOK, EnvType
  <1>3. EnvFixed(f)
    <2>1. status # NULL
      BY ValuesAssumption
    <2> QED BY <1>0, <1>1, <2>1 DEF EnvOK, EnvFixed
  <1>4. EnvFinds(f, g)
    <2> SUFFICES ASSUME NEW m \in Used \ {OwnName[RET]}, g[m] # NULL
                 PROVE  Found(f, m, g[m])
      BY DEF EnvFinds
    <2>1. PICK k \in Slots : /\ e.name[k] = m /\ e.value[k] = g[m]
                             /\ \A j \in 0..(k - 1) : e.name[j] # m
      BY DEF EnvOK, EnvFinds, Found
    <2>2. k # RET
      BY <2>1 DEF EnvOK, EnvFixed
    <2> QED BY <1>0, <1>1, <2>1, <2>2 DEF Found
  <1> QED BY <1>2, <1>3, <1>4 DEF EnvOK

-----------------------------------------------------------------------------
(* The processes *)

LEMMA InvIsOK == Inv => /\ sh \in [Shells -> States] /\ lines \in 0..MaxLines
                        /\ \A s \in Shells : EnvOK(env[s], given[s])
  BY DEF Inv, TypeOK, EnvOK

LEMMA DieOK ==
  ASSUME Inv, NEW s \in Shells, Die(s), lines' \in 0..MaxLines
  PROVE  Inv'
  BY InitEnvOK DEF Inv, TypeOK, Die, EnvOK, States

LEMMA StoreStatusOK ==
  ASSUME Inv, NEW s \in Shells, NEW e, NEW g, NEW status \in Status,
         e.value[RET] # NULL => EnvOK(e, g), StoreStatus(s, e, g, status),
         lines' \in 0..MaxLines
  PROVE  Inv'
  <1>1. CASE e.value[RET] = NULL
    BY <1>1, DieOK DEF StoreStatus
  <1>2. CASE e.value[RET] # NULL
    <2>1. EnvOK([e EXCEPT !.value[RET] = status], g)
      BY <1>2, StatusOK
    <2>2. /\ sh' = [sh EXCEPT ![s] = "prompt"]
          /\ env' = [env EXCEPT ![s] = [e EXCEPT !.value[RET] = status]]
          /\ given' = [given EXCEPT ![s] = g]
      BY <1>2 DEF StoreStatus
    <2> QED BY <2>1, <2>2 DEF Inv, TypeOK, EnvOK, States
  <1> QED BY <1>1, <1>2

LEMMA InitInv == Init => Inv
  <1>1. 0 \in 0..MaxLines
    BY BoundsAssumption
  <1> QED BY <1>1, InitEnvOK DEF Init, Inv, TypeOK, EnvOK, States

LEMMA StepInv ==
  ASSUME Inv, NEW s \in Shells, Command(s) \/ Run(s)
  PROVE  Inv'
  <1>1. ASSUME ReadLine(s) PROVE lines' \in 0..MaxLines
    BY <1>1, BoundsAssumption DEF ReadLine, Inv, TypeOK
  <1>2. EnvOK(env[s], given[s]) /\ lines \in 0..MaxLines
    BY InvIsOK
  <1>3. CASE Command(s)
    <2>1. CASE Builtin(s)
      BY <1>1, <1>2, <2>1, StoreStatusOK DEF Builtin, Status
    <2>2. CASE \/ EmptyLine(s) \/ EchoNothing(s) \/ TeeUnopened(s)
               \/ TimeUnknown(s) \/ Exit(s)
      BY <1>1, <2>2, DieOK
      DEF EmptyLine, EchoNothing, TeeUnopened, TimeUnknown, Exit
    <2>3. CASE Fork(s)
      BY <1>1, <2>3 DEF Fork, Inv, TypeOK, States
    <2>4. CASE ForkFails(s)
      BY <1>1, <1>2, <2>4, StoreStatusOK DEF ForkFails, Status
    <2>5. ASSUME NEW n \in Used, NEW v \in Values, Set(s, n, v) PROVE Inv'
      <3> DEFINE e == EnvSet(env[s], n, v)
      <3> DEFINE status == EnvSetStatus(env[s], n)
      <3> DEFINE g == IF status = "0" THEN [given[s] EXCEPT ![n] = v]
                      ELSE given[s]
      <3>1. EnvOK(e, g)
        BY <1>2, SetOK
      <3>2. status \in Status
        BY DEF EnvSetStatus, Status
      <3>3. ReadLine(s) /\ StoreStatus(s, e, g, status)
        BY <2>5 DEF Set
      <3> HIDE DEF e, g, status
      <3> QED BY <1>1, <3>1, <3>2, <3>3, StoreStatusOK
    <2>6. ASSUME NEW n \in Used, Unset(s, n) PROVE Inv'
      <3> DEFINE e == EnvUnset(env[s], n)
      <3> DEFINE status == EnvUnsetStatus(env[s], n)
      <3> DEFINE g == IF Unsets(env[s], n) THEN [given[s] EXCEPT ![n] = NULL]
                      ELSE given[s]
      <3>1. e.value[RET] # NULL => EnvOK(e, g)
        BY <1>2, UnsetOK
      <3>2. status \in Status
        BY DEF EnvUnsetStatus, Status
      <3>3. ReadLine(s) /\ StoreStatus(s, e, g, status)
        BY <2>6 DEF Unset
      <3> HIDE DEF e, g, status
      <3> QED BY <1>1, <3>1, <3>2, <3>3, StoreStatusOK
    <2>7. ASSUME NEW n \in Used, Echo(s, n) PROVE Inv'
      BY <1>1, <1>2, <2>7, StoreStatusOK DEF Echo, Status
    <2>8. ASSUME NEW n \in Used, SearchFault(s, n) PROVE Inv'
      BY <1>1, <2>8, DieOK DEF SearchFault
    <2> QED BY <1>3, <2>1, <2>2, <2>3, <2>4, <2>5, <2>6, <2>7, <2>8 DEF Command
  <1>4. CASE Run(s)
    <2>1. CASE Exec(s)
      BY <2>1 DEF Exec, Inv, TypeOK, States
    <2>2. CASE ExecFails(s)
      BY <1>2, <2>2, StoreStatusOK DEF ExecFails
    <2>3. CASE ExecFault(s) \/ ProgramEnds(s)
      BY <1>2, <2>3, DieOK DEF ExecFault, ProgramEnds
    <2>4. CASE Wait(s)
      BY <1>2, <2>4, StoreStatusOK DEF Wait, Status
    <2> QED BY <1>4, <2>1, <2>2, <2>3, <2>4 DEF Run
  <1> QED BY <1>3, <1>4

LEMMA NextInv == Inv /\ [Next]_vars => Inv'
  <1>1. Inv /\ UNCHANGED vars => Inv'
    BY DEF Inv, TypeOK, vars
  <1> QED BY <1>1, StepInv DEF Next

-----------------------------------------------------------------------------
\* The environments, the processes and what is recorded of them have their
\* types (sh.c:39-41, 145-171).
THEOREM ShellTypes == Spec => []TypeOK
  <1>1. Inv => TypeOK
    BY DEF Inv
  <1> QED BY InitInv, NextInv, <1>1, PTL DEF Spec

\* No sequence of env -s and env -u, whatever it leaves behind in the table,
\* moves, hides or empties one of the variables the shell reads by their place
\* (env.c:74-143).
THEOREM LoginVariablesKept == Spec => []LoginVariablesStay
  <1>1. 0..PWD \subseteq 0..RET
    BY DEF PWD, RET
  <1>2. Inv => LoginVariablesStay
    BY <1>1 DEF Inv, LoginVariablesStay, EnvFixed
  <1> QED BY InitInv, NextInv, <1>2, PTL DEF Spec

\* The first slot with a name has the value last given to it, with holes before
\* it and stale entries behind it (env.c:97-110).
THEOREM LastGivenFound == Spec => []LastGivenIsFound
  <1>1. Inv => LastGivenIsFound
    BY DEF Inv, LastGivenIsFound, EnvFinds, Found
  <1> QED BY InitInv, NextInv, <1>1, PTL DEF Spec

-----------------------------------------------------------------------------
(* One reader *)

\* Whoever has a child, or a child's child, waits.
Chain ==
    /\ \A s, t \in Shells : s < t /\ sh[t] # "none" => sh[s] = "wait"
    /\ \A s \in Shells : sh[s] = "wait" => s + 1 \in Shells

LEMMA StoreStatusSh ==
  ASSUME TypeOK, NEW s \in Shells, NEW e, NEW g, NEW status,
         StoreStatus(s, e, g, status)
  PROVE  \E x \in {"none", "prompt"} : sh' = [sh EXCEPT ![s] = x]
  BY DEF StoreStatus, Die

LEMMA StepChain ==
  ASSUME TypeOK, Chain, NEW s \in Shells, Command(s) \/ Run(s)
  PROVE  Chain'
  <1>0. Shells \subseteq Nat /\ sh \in [Shells -> States]
    BY DEF TypeOK, Shells
  \* Who is not waiting has no child, and may become anything but the parent
  \* of one.
  <1>1. ASSUME NEW x \in {"none", "prompt", "program"},
               sh' = [sh EXCEPT ![s] = x],
               sh[s] # "wait" \/ sh[s + 1] = "none", sh[s] # "none"
        PROVE  Chain'
    <2>1. \A t \in Shells : t > s => sh[t] = "none"
      <3> SUFFICES ASSUME NEW t \in Shells, t > s, sh[t] # "none" PROVE FALSE
        OBVIOUS
      <3>1. sh[s] = "wait" /\ s + 1 \in Shells /\ sh[s + 1] = "none"
        BY <1>0, <1>1 DEF Chain
      <3>2. t # s + 1 /\ s + 1 < t
        BY <1>0, <3>1
      <3> QED BY <3>1, <3>2 DEF Chain
    <2> QED BY <1>0, <1>1, <2>1 DEF Chain
  <1>2. CASE Command(s)
    <2>1. sh[s] = "prompt"
      BY <1>2 DEF Command, ReadLine, Builtin, EmptyLine, EchoNothing,
                  TeeUnopened, TimeUnknown, Exit, Fork, ForkFails, Set, Unset,
                  Echo, SearchFault
    <2>2. CASE Fork(s)
      <3>1. sh' = [sh EXCEPT ![s] = "wait", ![s + 1] = "child"]
            /\ s + 1 \in Shells
        BY <2>2 DEF Fork
      <3> QED BY <1>0, <2>1, <3>1 DEF Chain
    <2>3. CASE ~Fork(s)
      <3>1. \E x \in {"none", "prompt"} : sh' = [sh EXCEPT ![s] = x]
        <4>1. CASE Builtin(s) \/ ForkFails(s)
          BY <4>1, StoreStatusSh DEF Builtin, ForkFails
        <4>2. CASE \/ EmptyLine(s) \/ EchoNothing(s) \/ TeeUnopened(s)
                   \/ TimeUnknown(s) \/ Exit(s)
          BY <4>2
          DEF EmptyLine, EchoNothing, TeeUnopened, TimeUnknown, Exit, Die
        <4>3. CASE \E n \in Used : \/ \E v \in Values : Set(s, n, v)
                                   \/ Unset(s, n) \/ Echo(s, n)
          BY <4>3, StoreStatusSh DEF Set, Unset, Echo
        <4>4. CASE \E n \in Used : SearchFault(s, n)
          BY <4>4 DEF SearchFault, Die
        <4> QED BY <1>2, <2>3, <4>1, <4>2, <4>3, <4>4 DEF Command
      <3> QED BY <1>1, <2>1, <3>1
    <2> QED BY <2>2, <2>3
  <1>3. CASE Run(s)
    <2>1. CASE Exec(s)
      BY <1>1, <2>1 DEF Exec
    <2>2. CASE ExecFault(s) \/ ProgramEnds(s)
      BY <1>1, <2>2 DEF ExecFault, ProgramEnds, Die
    <2>3. CASE ExecFails(s) \/ Wait(s)
      <3>1. \E x \in {"none", "prompt"} : sh' = [sh EXCEPT ![s] = x]
        BY <2>3, StoreStatusSh DEF ExecFails, Wait
      <3>2. sh[s] # "none" /\ (sh[s] # "wait" \/ sh[s + 1] = "none")
        BY <2>3 DEF ExecFails, Wait
      <3> QED BY <1>1, <3>1, <3>2
    <2> QED BY <1>3, <2>1, <2>2, <2>3 DEF Run
  <1> QED BY <1>2, <1>3

LEMMA NextChain == Inv /\ Chain /\ [Next]_vars => Chain'
  <1>1. Chain /\ UNCHANGED vars => Chain'
    BY DEF Chain, vars
  <1> QED BY <1>1, StepChain DEF Next, Inv

\* However many shells failed execs have left, one process reads
\* (shell.h:95-117).
THEOREM ReadersAlternate == Spec => []OneReader
  <1>1. Init => Chain
    BY DEF Init, Chain, Shells
  <1>2. Chain => OneReader
    <2>1. Shells \subseteq Nat
      BY DEF Shells
    <2>2. \A s, t \in Shells : s # t => s < t \/ t < s
      BY <2>1
    <2> QED BY <2>2 DEF Chain, OneReader
  <1> QED BY InitInv, NextInv, NextChain, <1>1, <1>2, PTL DEF Spec
=============================================================================
