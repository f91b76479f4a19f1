----------------------------- MODULE TreeProofs -----------------------------
(***************************************************************************)
(* Theorems of the tools that walk a directory tree, for any tree, any     *)
(* operands, and any directories and files that refuse.                    *)
(***************************************************************************)
EXTENDS TreeWalk, TLAPS

Paths ==
    Nodes \cup {Name[n] : n \in Nodes}
        \cup UNION {{c[j] : j \in DOMAIN c} : c \in Calls}

Frames == [path : Paths, dir : Dirs, todo : SUBSET Nodes, entry : Nodes]

\* Types, with those of the stack, and where an operand or a frame is in hand.
TInv ==
    /\ TypeOK
    /\ stack \in Seq(Frames) /\ path \in Paths
    /\ pc \in {"loop", "act"} => stack # <<>>
    /\ pc = "main" => stack = <<>>
    /\ pc \notin {"main", "ok", "failed"} => arg <= Len(args)

-----------------------------------------------------------------------------
(* The stack *)

LEMMA Push ==
    ASSUME NEW S, NEW f \in S, NEW s \in Seq(S)
    PROVE  /\ <<f>> \o s \in Seq(S) /\ <<f>> \o s # <<>>
           /\ Len(<<f>> \o s) = Len(s) + 1
           /\ (<<f>> \o s)[1] = f
           /\ \A k \in 1..Len(s) : (<<f>> \o s)[k + 1] = s[k]
  OBVIOUS

LEMMA Pop ==
    ASSUME NEW S, NEW s \in Seq(S), s # <<>>
    PROVE  /\ Head(s) \in S /\ Head(s) = s[1] /\ Len(s) >= 1
           /\ Tail(s) \in Seq(S) /\ Len(Tail(s)) = Len(s) - 1
           /\ \A k \in 1..(Len(s) - 1) : Tail(s)[k] = s[k + 1]
  OBVIOUS

LEMMA OperandsHave ==
    ASSUME NEW c \in Calls
    PROVE  /\ Len(c) \in Nat /\ Len(c) >= 1 /\ DOMAIN c = 1..Len(c)
           /\ \A j \in 1..Len(c) : c[j] \in Paths
  <1>1. c # <<>> /\ c \in Seq({c[j] : j \in DOMAIN c})
    BY CallsAssumption
  <1>2. Len(c) \in Nat /\ Len(c) >= 1 /\ DOMAIN c = 1..Len(c)
    BY <1>1
  <1>3. \A j \in DOMAIN c : c[j] \in Paths
    BY DEF Paths
  <1> QED BY <1>2, <1>3

-----------------------------------------------------------------------------
(* Types *)

\* Following links leads to nodes.
LEMMA FollowNodes ==
    ASSUME NEW S \in SUBSET Nodes
    PROVE  Follow(S) \subseteq Nodes /\ Follow(S) \cap Links = {}
  <1>1. \A l \in Links : Leads[l] \subseteq Dirs \cup Plain
    BY LinksAssumption
  <1>2. \A n \in Follow(S) : n \in S \ Links \/ \E l \in Links : n \in Leads[l]
    BY DEF Follow
  <1> QED BY <1>1, <1>2, TreeAssumption DEF Nodes

LEMMA OperandNodes == Mentioned \subseteq Nodes /\ Operands \subseteq Nodes
  <1>1. Mentioned \subseteq Nodes
    BY DEF Mentioned
  <1> QED BY <1>1, FollowNodes DEF Operands

LEMMA Looked ==
    ASSUME NEW q
    PROVE  Look(q) \subseteq Nodes /\ Resolve(q) \subseteq Nodes
           /\ Resolve(q) \subseteq Follow(Look(q))
  <1>1. Look(q) \subseteq Nodes
    BY DEF Look
  <1> QED BY <1>1, FollowNodes DEF Resolve

LEMMA InitTInv == Init => TInv
  <1> SUFFICES ASSUME Init PROVE TInv
    OBVIOUS
  <1>1. /\ Len(args) \in Nat /\ Len(args) >= 1 /\ args[1] \in Paths
    BY OperandsHave DEF Init
  <1>2. had \subseteq Nodes
    BY OperandNodes DEF Init
  <1>3. stack = <<>> /\ stack \in Seq(Frames)
    BY DEF Init
  <1>4. TypeOK
    BY <1>1, <1>2, <1>3, StartAssumption, OpenMaxAssumption DEF Init, TypeOK, Labels, Nodes
  <1> QED BY <1>1, <1>3, <1>4 DEF TInv, Init

\* What reading an entry does to the stack.
LEMMA ReadStack ==
    ASSUME TInv, NEW n \in Nodes, pc = "loop",
           stack' = <<[Frame EXCEPT !.todo = @ \ {n}, !.entry = n]>> \o Tail(stack)
    PROVE  /\ stack' \in Seq(Frames) /\ stack' # <<>> /\ Len(stack') = Len(stack)
           /\ stack'[1] = [stack[1] EXCEPT !.todo = @ \ {n}, !.entry = n]
           /\ \A k \in 2..Len(stack) : stack'[k] = stack[k]
  <1>1. stack \in Seq(Frames) /\ stack # <<>>
    BY DEF TInv
  <1>2. /\ Frame \in Frames /\ Frame = stack[1] /\ Len(stack) \in Nat
        /\ Tail(stack) \in Seq(Frames) /\ Len(Tail(stack)) = Len(stack) - 1
        /\ \A k \in 1..(Len(stack) - 1) : Tail(stack)[k] = stack[k + 1]
    BY <1>1, Pop DEF Frame
  <1>3. [Frame EXCEPT !.todo = @ \ {n}, !.entry = n] \in Frames
    BY <1>2 DEF Frames
  <1>4. \A k \in 1..Len(Tail(stack)) : stack'[k + 1] = Tail(stack)[k]
    BY <1>2, <1>3, Push
  <1>5. \A k \in 2..Len(stack) : stack'[k] = stack[k]
    <2> SUFFICES ASSUME NEW k \in 2..Len(stack) PROVE stack'[k] = stack[k]
      OBVIOUS
    <2>1. k - 1 \in 1..(Len(stack) - 1) /\ (k - 1) + 1 = k
      BY <1>2
    <2> QED BY <1>2, <1>4, <2>1
  <1> QED BY <1>2, <1>3, <1>5, Push

LEMMA StackTypes ==
    ASSUME NEW s \in Seq(Frames)
    PROVE  \A j \in DOMAIN s : s[j].dir \in Dirs /\ s[j].todo \subseteq Nodes
  <1> SUFFICES ASSUME NEW j \in DOMAIN s
               PROVE  s[j].dir \in Dirs /\ s[j].todo \subseteq Nodes
    OBVIOUS
  <1>1. DOMAIN s = 1..Len(s) /\ s \in [1..Len(s) -> Frames]
    OBVIOUS
  <1>2. s[j] \in Frames
    BY <1>1
  <1> QED BY <1>2 DEF Frames

LEMMA NextTInv == TInv /\ [Next]_vars => TInv'
  <1> SUFFICES ASSUME TInv, [Next]_vars PROVE TInv'
    OBVIOUS
  <1>0. /\ tool \in Tools /\ args \in Calls /\ Len(args) \in Nat /\ Len(args) >= 1
        /\ \A j \in 1..Len(args) : args[j] \in Paths
        /\ arg \in 1..(Len(args) + 1)
    BY OperandsHave DEF TInv, TypeOK
  <1> USE DEF TInv, TypeOK, given, Labels, Return
  <1>1. CASE Retained
    BY <1>0, <1>1 DEF Retained
  <1>2. CASE Walk
    BY <1>0, <1>2 DEF Walk
  <1>3. CASE RemoveFile \/ MeasureFile
    BY <1>0, <1>3, Looked DEF RemoveFile, MeasureFile
  <1>4. CASE NotThere
    BY <1>0, <1>4 DEF NotThere
  <1>5. CASE Walked
    BY <1>0, <1>5 DEF Walked
  <1>6. CASE Finish \/ EnterFails
    BY <1>0, <1>6 DEF Finish, EnterFails
  <1>7. CASE Enter
    <2>1. PICK d \in Resolve(path) :
             /\ CanOpen(d)
             /\ stack' = <<[path |-> path, dir |-> d, todo |-> Entries(d), entry |-> d]>>
                            \o stack
             /\ Chdir(d)
      BY <1>7 DEF Enter
    <2>2. d \in Dirs /\ opened < OpenMax /\ cwd' \in Dirs
      BY <2>1 DEF CanOpen, Chdir
    <2>3. [path |-> path, dir |-> d, todo |-> Entries(d), entry |-> d] \in Frames
      BY <2>2 DEF Frames, Entries, Nodes
    <2>4. stack' \in Seq(Frames) /\ stack' # <<>>
      BY <2>1, <2>3, Push
    <2>5. \A j \in DOMAIN stack' : stack'[j].dir \in Dirs /\ stack'[j].todo \subseteq Nodes
      BY <2>4, StackTypes
    <2>6. opened' \in 0..OpenMax
      BY <1>7, <2>2, OpenMaxAssumption DEF Enter
    <2> QED BY <1>0, <1>7, <2>2, <2>4, <2>5, <2>6 DEF Enter
  <1>8. ASSUME NEW n \in Nodes, Descend(n) \/ Visit(n) \/ FindPasses(n) PROVE TInv'
    <2>1. Read(n)
      BY <1>8 DEF Descend, Visit, FindPasses
    <2>2. stack' \in Seq(Frames) /\ stack' # <<>>
      BY <2>1, ReadStack DEF Read
    <2>3. \A j \in DOMAIN stack' : stack'[j].dir \in Dirs /\ stack'[j].todo \subseteq Nodes
      BY <2>2, StackTypes
    <2>4. pc' \in {"enter", "act", "loop"} /\ path' \in Paths /\ ret' = ret
      BY <1>8, <2>1 DEF Descend, Visit, FindPasses, Paths, Read
    <2> QED BY <1>0, <2>1, <2>2, <2>3, <2>4 DEF Read
  <1>9. ASSUME UNCHANGED stack \/ (stack # <<>> /\ stack' = Tail(stack))
        PROVE  /\ stack' \in Seq(Frames)
               /\ \A j \in DOMAIN stack' :
                     stack'[j].dir \in Dirs /\ stack'[j].todo \subseteq Nodes
    <2>1. stack' \in Seq(Frames)
      BY <1>9, Pop
    <2> QED BY <2>1, StackTypes
  <1>10. ASSUME NEW n \in Nodes, Found(n) PROVE TInv'
    BY <1>0, <1>9, <1>10 DEF Found
  <1>11. CASE Leave
    <2>1. cwd' \in Dirs
      BY <1>11, TreeAssumption DEF Leave, Chdir, Nodes
    <2> QED BY <1>0, <1>9, <1>11, <2>1 DEF Leave
  <1>12. CASE Back
    BY <1>0, <1>9, <1>12 DEF Back
  <1>13. CASE ActChange
    BY <1>0, <1>9, <1>13, Looked DEF ActChange, Change
  <1>14. CASE ActMeasure
    BY <1>0, <1>14, Looked DEF ActMeasure
  <1>15. CASE ActRemove
    BY <1>0, <1>9, <1>15, Looked DEF ActRemove
  <1>16. CASE UNCHANGED vars
    BY <1>16 DEF vars
  <1> QED BY <1>1, <1>2, <1>3, <1>4, <1>5, <1>6, <1>7, <1>8, <1>10, <1>11, <1>12, <1>13,
      <1>14, <1>15, <1>16 DEF Next

\* The working directory is one, no more directories are open than the system
\* allows and no operand behind the last is taken, whichever calls fail.
THEOREM TreeTypes == Spec => []TypeOK
  <1>1. TInv => TypeOK
    BY DEF TInv
  <1> QED BY InitTInv, NextTInv, <1>1, PTL DEF Spec

-----------------------------------------------------------------------------
(* What the walkers are called with *)

\* The entry in hand is one of the directory.
Proper(f) == Up[f.entry] = f.dir /\ f.entry # f.dir

\* From where an entry is taken in hand to where it has been handled.
InHand == pc \in {"enter", "act", "back"}

\* The function is called for the operand or by the name of an entry; a path is
\* only ever an operand.
EInv ==
    /\ \A k \in 1..Len(stack) :
          /\ \A n \in stack[k].todo : Up[n] = stack[k].dir /\ n # stack[k].dir
          /\ k > 1 => Proper(stack[k])
          /\ stack[k].path \in Nodes => stack[k].path \in Mentioned
    /\ InHand /\ stack # <<>> => Proper(stack[1])
    /\ pc = "enter" => path = IF stack = <<>> THEN args[arg] ELSE Name[stack[1].entry]
    /\ pc = "enter" /\ stack # <<>> => stack[1].entry \in Dirs

LEMMA InitEInv == Init => EInv
  BY DEF Init, EInv, InHand

LEMMA NextEInv == TInv /\ EInv /\ [Next]_vars => EInv'
  <1> SUFFICES ASSUME TInv, EInv, [Next]_vars PROVE EInv'
    OBVIOUS
  <1>0. UNCHANGED args /\ Mentioned' = Mentioned
    <2>1. UNCHANGED args
      BY DEF Next, vars, given, Retained, Walk, RemoveFile, MeasureFile, NotThere, Walked,
         Finish, EnterFails, Enter, Leave, Back, Descend, Visit, FindPasses, Found, Read,
         ActChange, ActMeasure, ActRemove
    <2> QED BY <2>1 DEF Mentioned
  <1>1. stack \in Seq(Frames) /\ Len(stack) \in Nat
    BY DEF TInv
  <1>2. stack # <<>> =>
          /\ Frame = stack[1] /\ stack[1] \in Frames /\ Len(stack) >= 1
          /\ Tail(stack) \in Seq(Frames) /\ Len(Tail(stack)) = Len(stack) - 1
          /\ \A k \in 1..(Len(stack) - 1) : Tail(stack)[k] = stack[k + 1]
    BY <1>1, Pop DEF Frame
  <1>3. ASSUME UNCHANGED stack, InHand' => InHand, pc' = "enter" => pc = "enter" /\ UNCHANGED <<path, arg>>
        PROVE  EInv'
    BY <1>0, <1>3 DEF EInv
  <1>4. ASSUME stack # <<>>, stack' = Tail(stack), pc' # "enter"
        PROVE  EInv'
    <2>1. /\ Len(stack') = Len(stack) - 1
          /\ \A k \in 1..Len(stack') : k + 1 \in 1..Len(stack) /\ k + 1 > 1 /\ stack'[k] = stack[k + 1]
      BY <1>1, <1>2, <1>4
    <2>2. stack' # <<>> => Len(stack') >= 1
      BY <1>2, <1>4
    <2>3. stack' # <<>> => Proper(stack'[1])
      BY <2>1, <2>2 DEF EInv
    <2> QED BY <1>0, <1>4, <2>1, <2>3 DEF EInv
  <1>5. CASE Walk
    <2>1. stack = <<>> /\ stack' = <<>> /\ path' = args[arg] /\ UNCHANGED arg
      BY <1>5 DEF Walk, TInv
    <2> QED BY <1>0, <2>1 DEF EInv
  <1>6. CASE Enter
    <2>1. PICK d \in Resolve(path) :
             /\ CanOpen(d)
             /\ stack' = <<[path |-> path, dir |-> d, todo |-> Entries(d), entry |-> d]>>
                            \o stack
      BY <1>6 DEF Enter
    <2> DEFINE f == [path |-> path, dir |-> d, todo |-> Entries(d), entry |-> d]
    <2>2. f \in Frames /\ f.dir = d /\ f.todo = Entries(d) /\ f.path = path
      BY <2>1 DEF CanOpen, Frames, Entries, Nodes, TInv
    <2> HIDE DEF f
    <2>3. /\ stack' # <<>>
          /\ Len(stack') = Len(stack) + 1 /\ stack'[1] = f
          /\ \A k \in 1..Len(stack) : stack'[k + 1] = stack[k]
      BY <1>1, <2>1, <2>2, Push DEF f
    <2>4. path \in Nodes => path \in Mentioned
      <3>1. CASE stack = <<>>
        <4>1. path = args[arg] /\ arg \in DOMAIN args
          BY <1>6, <3>1, OperandsHave DEF Enter, EInv, TInv, TypeOK
        <4> QED BY <4>1 DEF Mentioned
      <3>2. CASE stack # <<>>
        <4>1. Proper(stack[1]) /\ path = Name[stack[1].entry]
          BY <1>6, <3>2 DEF Enter, EInv, InHand
        <4>2. stack[1].entry \in Nodes
          BY <1>2, <3>2 DEF Frames
        <4> QED BY <4>1, <4>2, NamesAssumption DEF Proper
      <3> QED BY <3>1, <3>2
    <2>5. ASSUME NEW k \in 1..Len(stack')
          PROVE  /\ \A n \in stack'[k].todo : Up[n] = stack'[k].dir /\ n # stack'[k].dir
                 /\ k > 1 => Proper(stack'[k])
                 /\ stack'[k].path \in Nodes => stack'[k].path \in Mentioned
      <3>1. CASE k = 1
        BY <2>2, <2>3, <2>4, <3>1 DEF Entries
      <3>2. CASE k > 1
        <4>1. k - 1 \in 1..Len(stack) /\ (k - 1) + 1 = k
          BY <1>1, <2>3, <3>2
        <4>2. stack'[k] = stack[k - 1]
          BY <2>3, <4>1
        <4>3. Proper(stack[k - 1])
          <5>1. CASE k - 1 = 1
            BY <1>1, <1>6, <4>1, <5>1 DEF EInv, InHand, Enter
          <5>2. CASE k - 1 > 1
            BY <4>1, <5>2 DEF EInv
          <5> QED BY <4>1, <5>1, <5>2
        <4> QED BY <4>1, <4>2, <4>3 DEF EInv
      <3> QED BY <3>1, <3>2
    <2>6. pc' = "loop"
      BY <1>6 DEF Enter
    <2> QED BY <1>0, <2>5, <2>6 DEF EInv, InHand
  <1>7. ASSUME NEW n \in Nodes, Descend(n) \/ Visit(n) \/ FindPasses(n) PROVE EInv'
    <2>1. Read(n) /\ n \in Frame.todo /\ stack # <<>>
      BY <1>7 DEF Descend, Visit, FindPasses, Read, TInv
    <2>2. /\ stack' \in Seq(Frames) /\ stack' # <<>> /\ Len(stack') = Len(stack)
          /\ stack'[1] = [stack[1] EXCEPT !.todo = @ \ {n}, !.entry = n]
          /\ \A k \in 2..Len(stack) : stack'[k] = stack[k]
      BY <2>1, ReadStack DEF Read
    <2>3. /\ stack'[1].dir = stack[1].dir /\ stack'[1].todo \subseteq stack[1].todo
          /\ stack'[1].entry = n /\ stack'[1].path = stack[1].path
      BY <1>2, <2>1, <2>2 DEF Frames
    <2>4. 1 \in 1..Len(stack) /\ n \in stack[1].todo
      BY <1>1, <1>2, <2>1
    <2>5. Proper(stack'[1])
      BY <2>3, <2>4 DEF EInv, Proper
    <2>6. ASSUME NEW k \in 1..Len(stack')
          PROVE  /\ \A m \in stack'[k].todo : Up[m] = stack'[k].dir /\ m # stack'[k].dir
                 /\ k > 1 => Proper(stack'[k])
                 /\ stack'[k].path \in Nodes => stack'[k].path \in Mentioned
      <3>1. CASE k = 1
        BY <2>3, <2>4, <3>1 DEF EInv
      <3>2. CASE k > 1
        <4>1. k \in 2..Len(stack) /\ k \in 1..Len(stack) /\ stack'[k] = stack[k]
          BY <1>1, <2>2, <3>2
        <4> QED BY <3>2, <4>1 DEF EInv
      <3> QED BY <3>1, <3>2
    <2>7. pc' = "enter" => path' = Name[n] /\ n \in Dirs
      BY <1>7, <2>1 DEF Descend, Visit, FindPasses, Read
    <2> QED BY <1>0, <2>2, <2>3, <2>5, <2>6, <2>7 DEF EInv
  <1>8. CASE Retained \/ RemoveFile \/ MeasureFile \/ NotThere \/ Walked \/ Finish \/ EnterFails
    BY <1>3, <1>8 DEF Retained, RemoveFile, MeasureFile, NotThere, Walked, Finish, EnterFails,
       Return, InHand
  <1>9. CASE Leave \/ Back \/ \E n \in Nodes : Found(n)
    BY <1>3, <1>4, <1>9 DEF Leave, Back, Found, Return, InHand, TInv
  <1>10. CASE ActChange \/ ActRemove \/ ActMeasure
    <2>1. pc = "act" /\ stack # <<>>
      BY <1>10 DEF ActChange, ActRemove, ActMeasure, TInv
    <2>2. \/ UNCHANGED stack /\ pc' = "loop"
          \/ stack' = Tail(stack) /\ pc' = "back"
      BY <1>10 DEF ActChange, Change, ActRemove, ActMeasure, Return
    <2> QED BY <1>3, <1>4, <2>1, <2>2 DEF InHand
  <1>11. CASE UNCHANGED vars
    BY <1>3, <1>11 DEF vars, InHand
  <1> QED BY <1>5, <1>6, <1>7, <1>8, <1>9, <1>10, <1>11 DEF Next

\* What an operand leads to where the tool was started.
LEMMA OperandHere ==
    ASSUME TInv, cwd = Start, arg <= Len(args)
    PROVE  /\ Look(args[arg]) \subseteq Mentioned
           /\ Resolve(args[arg]) \subseteq Operands
  <1>1. arg \in DOMAIN args
    BY OperandsHave DEF TInv, TypeOK
  <1>2. Look(args[arg]) \subseteq Mentioned
    BY <1>1 DEF Look, Mentioned
  <1>3. Follow(Look(args[arg])) \subseteq Follow(Mentioned)
    BY <1>2 DEF Follow
  <1> QED BY <1>2, <1>3, Looked DEF Operands

\* What the name of the entry in hand leads to.
LEMMA EntryHere ==
    ASSUME TInv, EInv, InHand, stack # <<>>
    PROVE  /\ stack[1].entry \in Nodes /\ Up[stack[1].entry] = stack[1].dir
           /\ stack[1].entry # stack[1].dir /\ Name[stack[1].entry] \notin Nodes
           /\ Look(Name[stack[1].entry]) =
                 {n \in Nodes : Up[n] = cwd /\ Name[n] = Name[stack[1].entry]} \ gone
  <1>1. stack[1] \in Frames
    BY Pop DEF TInv
  <1>2. stack[1].entry \in Nodes /\ Proper(stack[1])
    BY <1>1 DEF Frames, EInv
  <1>3. Name[stack[1].entry] \notin Nodes
    BY <1>2, NamesAssumption DEF Proper
  <1> QED BY <1>2, <1>3 DEF Proper, Look

\* Where it was read, it leads to the entry; and a directory is entered itself.
LEMMA EntryEntered ==
    ASSUME TInv, EInv, InHand, stack # <<>>, cwd = stack[1].dir
    PROVE  /\ Up[stack[1].entry] = stack[1].dir
           /\ Look(Name[stack[1].entry]) = {stack[1].entry} \ gone
           /\ pc = "enter" => \A d \in Resolve(Name[stack[1].entry]) : d = stack[1].entry
  <1> DEFINE e == stack[1].entry
  <1>1. /\ e \in Nodes /\ Up[e] = cwd
        /\ Look(Name[e]) = {n \in Nodes : Up[n] = cwd /\ Name[n] = Name[e]} \ gone
    BY EntryHere
  <1>2. Look(Name[e]) = {e} \ gone
    BY <1>1, TreeAssumption
  <1>3. ASSUME pc = "enter", NEW d \in Resolve(Name[e]) PROVE d = e
    <2>1. e \notin Links
      BY <1>3, TreeAssumption DEF EInv
    <2>2. Follow({e} \ gone) \subseteq {e}
      BY <2>1 DEF Follow
    <2> QED BY <1>2, <1>3, <2>2, Looked
  <1> QED BY <1>1, <1>2, <1>3

-----------------------------------------------------------------------------
(* Names are looked up where they were read *)

\* The tools that come back where they started from.
Walking == barred = {} /\ tool \in {"chgrp", "chmod", "chown", "du"}

\* After a call of chgrp, chmod or chown that failed nothing is looked up.
Returned == pc = "back" /\ (ret >= 0 \/ tool = "du")

\* The entries of a frame are in its directory, and its directory is in that of
\* the frame below.
Chain ==
    /\ \A k \in 1..Len(stack) : \A n \in stack[k].todo :
          Up[n] = stack[k].dir /\ n # stack[k].dir
    /\ \A k \in 1..(Len(stack) - 1) : Up[stack[k].dir] = stack[k + 1].dir
    /\ LocalOperands /\ stack # <<>> => Up[stack[Len(stack)].dir] = Start

NInv ==
    Walking =>
        /\ gone = {}
        /\ Chain
        /\ stack # <<>> =>
              /\ pc \in {"enter", "loop", "act"} \/ Returned => cwd = stack[1].dir
              /\ pc = "enter" => path \notin Nodes
        /\ stack = <<>> =>
              /\ pc \in {"main", "enter"} \/ Returned => (LocalOperands => cwd = Start)
              /\ pc = "enter" => path = args[arg]

LEMMA InitNInv == Init => NInv
  BY DEF Init, NInv, Chain, Returned

LEMMA NextNInv == TInv /\ EInv /\ NInv /\ [Next]_vars => NInv'
  <1> SUFFICES ASSUME TInv, EInv, NInv, [Next]_vars, Walking' PROVE NInv'
    BY DEF NInv
  <1>0. Walking /\ UNCHANGED given /\ LocalOperands' = LocalOperands
    <2>1. UNCHANGED given
      BY DEF Next, vars, Retained, Walk, RemoveFile, MeasureFile, NotThere, Walked, Finish,
         EnterFails, Enter, Leave, Back, Descend, Visit, FindPasses, Found, Read, ActChange,
         ActMeasure, ActRemove
    <2> QED BY <2>1 DEF Walking, given, LocalOperands, Operands, Mentioned
  <1>1. /\ gone = {} /\ Chain
        /\ stack # <<>> =>
              /\ pc \in {"enter", "loop", "act"} \/ Returned => cwd = stack[1].dir
              /\ pc = "enter" => path \notin Nodes
        /\ stack = <<>> =>
              /\ pc \in {"main", "enter"} \/ Returned => (LocalOperands => cwd = Start)
              /\ pc = "enter" => path = args[arg]
    BY <1>0 DEF NInv
  <1>2. /\ stack \in Seq(Frames) /\ Len(stack) \in Nat /\ arg \in 1..(Len(args) + 1)
        /\ barred = {} /\ tool \in {"chgrp", "chmod", "chown", "du"}
        /\ args \in Calls /\ ret \in {-1, 0, 1}
    BY <1>0 DEF TInv, TypeOK, Walking
  <1> DEFINE F == stack[1]
  <1>3. stack # <<>> =>
          /\ Frame = F /\ F \in Frames /\ Len(stack) >= 1
          /\ Tail(stack) \in Seq(Frames) /\ Len(Tail(stack)) = Len(stack) - 1
          /\ \A k \in 1..(Len(stack) - 1) : Tail(stack)[k] = stack[k + 1]
    BY <1>2, Pop DEF Frame
  <1>4. ASSUME UNCHANGED stack PROVE Chain'
    BY <1>0, <1>1, <1>4 DEF Chain
  <1>5. ASSUME stack # <<>>, stack' = Tail(stack) PROVE Chain'
    <2>1. /\ Len(stack') = Len(stack) - 1 /\ Len(stack') \in Nat
          /\ \A k \in 1..Len(stack') : stack'[k] = stack[k + 1]
      BY <1>2, <1>3, <1>5
    <2>2. ASSUME NEW k \in 1..Len(stack'), NEW n \in stack'[k].todo
          PROVE  Up[n] = stack'[k].dir /\ n # stack'[k].dir
      <3>1. k + 1 \in 1..Len(stack) /\ stack'[k] = stack[k + 1]
        BY <1>2, <2>1
      <3> QED BY <1>1, <2>2, <3>1 DEF Chain
    <2>3. ASSUME NEW k \in 1..(Len(stack') - 1) PROVE Up[stack'[k].dir] = stack'[k + 1].dir
      <3>1. /\ k + 1 \in 1..(Len(stack) - 1)
            /\ stack'[k] = stack[k + 1] /\ stack'[k + 1] = stack[(k + 1) + 1]
        BY <1>2, <2>1
      <3> QED BY <1>1, <3>1 DEF Chain
    <2>4. ASSUME LocalOperands, stack' # <<>> PROVE Up[stack'[Len(stack')].dir] = Start
      <3>1. Len(stack') >= 1 /\ stack'[Len(stack')] = stack[Len(stack)]
        BY <1>2, <1>3, <1>5, <2>1, <2>4
      <3> QED BY <1>1, <1>5, <2>4, <3>1 DEF Chain
    <2> QED BY <1>0, <2>2, <2>3, <2>4 DEF Chain
  <1> USE DEF given, Return
  <1>6. CASE Retained \/ Walk \/ MeasureFile \/ NotThere \/ Finish
    <2>1. /\ pc = "main" /\ UNCHANGED <<stack, cwd, args, gone>>
          /\ pc' \in {"main", "failed", "ok"} \/ (pc' = "enter" /\ path' = args[arg] /\ UNCHANGED arg)
      BY <1>2, <1>6 DEF Retained, Walk, MeasureFile, NotThere, Finish
    <2>2. stack = <<>>
      BY <2>1 DEF TInv
    <2> QED BY <1>0, <1>1, <1>4, <2>1, <2>2 DEF NInv, Returned
  <1>16. CASE Walked
    <2>1. pc = "back" /\ stack = <<>> /\ UNCHANGED <<stack, cwd, gone>> /\ pc' \in {"failed", "main"}
          /\ (pc' = "main" => Returned)
      BY <1>2, <1>16 DEF Walked, Returned
    <2> QED BY <1>0, <1>1, <1>4, <2>1 DEF NInv, Returned
  <1>7. CASE EnterFails
    BY <1>0, <1>1, <1>2, <1>4, <1>7 DEF EnterFails, NInv, Returned
  <1>8. CASE Enter
    <2>1. PICK d \in Resolve(path) :
             /\ CanOpen(d)
             /\ stack' = <<[path |-> path, dir |-> d, todo |-> Entries(d), entry |-> d]>>
                            \o stack
             /\ Chdir(d)
      BY <1>8 DEF Enter
    <2> DEFINE f == [path |-> path, dir |-> d, todo |-> Entries(d), entry |-> d]
    <2>2. d \in Dirs /\ cwd' = d
      BY <1>2, <2>1 DEF CanOpen, Chdir, Chdirs
    <2>3. f \in Frames /\ f.dir = d /\ f.todo = Entries(d)
      BY <2>2 DEF Frames, Entries, Nodes, TInv
    <2> HIDE DEF f
    <2>4. /\ stack' \in Seq(Frames) /\ stack' # <<>>
          /\ Len(stack') = Len(stack) + 1 /\ stack'[1] = f
          /\ \A k \in 1..Len(stack) : stack'[k + 1] = stack[k]
      BY <1>2, <2>1, <2>3, Push DEF f
    <2>5. stack # <<>> => Up[d] = F.dir
      <3> SUFFICES ASSUME stack # <<>> PROVE Up[d] = F.dir
        OBVIOUS
      <3>1. InHand /\ pc = "enter" /\ path = Name[F.entry] /\ cwd = F.dir
        BY <1>1, <1>8 DEF Enter, EInv, InHand
      <3>2. /\ Up[F.entry] = F.dir
            /\ \A m \in Resolve(Name[F.entry]) : m = F.entry
        BY <3>1, EntryEntered
      <3>3. d \in Resolve(Name[F.entry])
        BY <2>1, <3>1
      <3> QED BY <3>2, <3>3
    <2>6. stack = <<>> /\ LocalOperands => Up[d] = Start
      <3> SUFFICES ASSUME stack = <<>>, LocalOperands PROVE Up[d] = Start
        OBVIOUS
      <3>1. path = args[arg] /\ cwd = Start /\ arg \in DOMAIN args
        BY <1>1, <1>2, <1>8, OperandsHave DEF Enter, TInv
      <3>2. d \in Operands
        BY <1>2, <2>1, <3>1, OperandHere DEF Enter, TInv
      <3> QED BY <3>2 DEF LocalOperands
    <2>7. ASSUME NEW k \in 1..Len(stack'), NEW n \in stack'[k].todo
          PROVE  Up[n] = stack'[k].dir /\ n # stack'[k].dir
      <3>1. CASE k = 1
        BY <2>3, <2>4, <2>7, <3>1 DEF Entries
      <3>2. CASE k # 1
        <4>1. k - 1 \in 1..Len(stack) /\ (k - 1) + 1 = k
          BY <1>2, <2>4, <3>2
        <4>2. stack'[k] = stack[k - 1]
          BY <2>4, <4>1
        <4> QED BY <1>1, <2>7, <4>1, <4>2 DEF Chain
      <3> QED BY <3>1, <3>2
    <2>8. ASSUME NEW k \in 1..(Len(stack') - 1) PROVE Up[stack'[k].dir] = stack'[k + 1].dir
      <3>0. k \in 1..Len(stack) /\ stack'[k + 1] = stack[k]
        BY <1>2, <2>4
      <3>1. CASE k = 1
        BY <1>2, <2>3, <2>4, <2>5, <3>0, <3>1
      <3>2. CASE k # 1
        <4>1. k - 1 \in 1..(Len(stack) - 1) /\ k - 1 \in 1..Len(stack) /\ (k - 1) + 1 = k
          BY <1>2, <3>0, <3>2
        <4>2. stack'[k] = stack[k - 1]
          BY <2>4, <4>1
        <4> QED BY <1>1, <3>0, <4>1, <4>2 DEF Chain
      <3> QED BY <3>1, <3>2
    <2>9. ASSUME LocalOperands PROVE Up[stack'[Len(stack')].dir] = Start
      <3>1. CASE stack = <<>>
        BY <2>3, <2>4, <2>6, <2>9, <3>1
      <3>2. CASE stack # <<>>
        <4>1. Len(stack) >= 1 /\ stack'[Len(stack')] = stack[Len(stack)]
          BY <1>2, <1>3, <2>4, <3>2
        <4> QED BY <1>1, <2>9, <3>2, <4>1 DEF Chain
      <3> QED BY <3>1, <3>2
    <2>10. Chain'
      BY <1>0, <2>4, <2>7, <2>8, <2>9 DEF Chain
    <2>11. cwd' = stack'[1].dir /\ pc' = "loop" /\ gone' = {}
      BY <1>1, <1>8, <2>2, <2>3, <2>4 DEF Enter
    <2> QED BY <2>4, <2>10, <2>11 DEF NInv
  <1>9. ASSUME NEW n \in Nodes, Descend(n) \/ Visit(n) PROVE NInv'
    <2>1. Read(n) /\ n \in Frame.todo /\ stack # <<>>
      BY <1>9 DEF Descend, Visit, Read, TInv
    <2>2. /\ stack' \in Seq(Frames) /\ stack' # <<>> /\ Len(stack') = Len(stack)
          /\ stack'[1] = [F EXCEPT !.todo = @ \ {n}, !.entry = n]
          /\ \A k \in 2..Len(stack) : stack'[k] = stack[k]
      BY <2>1, ReadStack DEF Read
    <2>3. stack'[1].dir = F.dir /\ stack'[1].todo \subseteq F.todo
      BY <1>3, <2>1, <2>2 DEF Frames
    <2>4. \A k \in 1..Len(stack) :
             stack'[k].dir = stack[k].dir /\ stack'[k].todo \subseteq stack[k].todo
      <3> SUFFICES ASSUME NEW k \in 1..Len(stack)
                   PROVE  stack'[k].dir = stack[k].dir /\ stack'[k].todo \subseteq stack[k].todo
        OBVIOUS
      <3>1. k = 1 \/ k \in 2..Len(stack)
        BY <1>2
      <3> QED BY <2>2, <2>3, <3>1
    <2>5. Chain'
      <3>1. \A k \in 1..Len(stack') : \A m \in stack'[k].todo :
               Up[m] = stack'[k].dir /\ m # stack'[k].dir
        BY <1>1, <2>2, <2>4 DEF Chain
      <3>2. \A k \in 1..(Len(stack') - 1) : Up[stack'[k].dir] = stack'[k + 1].dir
        <4> SUFFICES ASSUME NEW k \in 1..(Len(stack) - 1)
                     PROVE  Up[stack'[k].dir] = stack'[k + 1].dir
          BY <2>2
        <4>1. k \in 1..Len(stack) /\ k + 1 \in 1..Len(stack)
          BY <1>2
        <4> QED BY <1>1, <2>4, <4>1 DEF Chain
      <3>3. LocalOperands => Up[stack'[Len(stack')].dir] = Start
        BY <1>1, <1>2, <1>3, <2>1, <2>2, <2>4 DEF Chain
      <3> QED BY <1>0, <2>2, <3>1, <3>2, <3>3 DEF Chain
    <2>6. Name[n] \notin Nodes
      <3>1. n \in stack[1].todo /\ 1 \in 1..Len(stack)
        BY <1>2, <1>3, <2>1
      <3>2. Up[n] # n
        BY <1>1, <3>1 DEF Chain
      <3> QED BY <3>2, NamesAssumption
    <2>7. /\ pc = "loop" /\ UNCHANGED <<cwd, gone>>
          /\ (pc' = "enter" /\ path' = Name[n]) \/ pc' = "act"
      BY <1>9, <2>1 DEF Descend, Visit, Read
    <2> QED BY <1>1, <2>1, <2>2, <2>3, <2>5, <2>6, <2>7 DEF NInv, Returned
  <1>10. CASE Leave
    <2>1. pc = "loop" /\ stack # <<>> /\ stack' = Tail(stack) /\ pc' = "back" /\ UNCHANGED gone
      BY <1>10 DEF Leave, TInv
    <2>2. cwd' = Up[F.dir]
      BY <1>1, <1>2, <1>10, <2>1 DEF Leave, Chdir, Chdirs
    <2>3. stack' # <<>> => cwd' = stack'[1].dir
      <3> SUFFICES ASSUME stack' # <<>> PROVE cwd' = stack'[1].dir
        OBVIOUS
      <3>1. Len(stack) - 1 >= 1 /\ stack'[1] = stack[2]
        BY <1>2, <1>3, <2>1
      <3>2. Up[stack[1].dir] = stack[2].dir
        BY <1>1, <1>2, <3>1 DEF Chain
      <3> QED BY <2>2, <3>1, <3>2
    <2>4. stack' = <<>> /\ LocalOperands => cwd' = Start
      <3> SUFFICES ASSUME stack' = <<>>, LocalOperands PROVE cwd' = Start
        OBVIOUS
      <3>1. Len(Tail(stack)) = Len(stack) - 1 /\ Tail(stack) = <<>>
        BY <1>3, <2>1
      <3>2. \A s : s = <<>> => Len(s) = 0
        OBVIOUS
      <3>3. Len(Tail(stack)) = 0
        BY <3>1, <3>2
      <3>4. Len(stack) = 1
        BY <1>2, <3>1, <3>3
      <3> QED BY <1>1, <2>1, <2>2, <3>4 DEF Chain
    <2> QED BY <1>0, <1>1, <1>5, <2>1, <2>3, <2>4 DEF NInv, Returned
  <1>11. CASE Back
    BY <1>0, <1>1, <1>2, <1>4, <1>5, <1>11 DEF Back, NInv, Returned
  <1>12. CASE ActChange
    <2>1. pc = "act" /\ stack # <<>> /\ UNCHANGED <<cwd, gone>> /\ tool # "du"
      BY <1>12 DEF ActChange, Changes, TInv
    <2>2. \/ UNCHANGED stack /\ pc' = "loop"
          \/ stack' = Tail(stack) /\ pc' = "back" /\ ret' = -1
      BY <1>12 DEF ActChange, Change
    <2> QED BY <1>0, <1>1, <1>4, <1>5, <2>1, <2>2 DEF NInv, Returned
  <1>13. CASE ActMeasure
    BY <1>0, <1>1, <1>2, <1>4, <1>13 DEF ActMeasure, NInv, Returned, TInv
  <1>14. CASE UNCHANGED vars
    BY <1>0, <1>1, <1>2, <1>4, <1>14 DEF vars, NInv, Returned
  <1>15. /\ ~RemoveFile /\ ~ActRemove
         /\ \A n \in Nodes : ~FindPasses(n) /\ ~Found(n)
    BY <1>2 DEF RemoveFile, ActRemove, FindPasses, Found
  <1> QED BY <1>6, <1>7, <1>8, <1>9, <1>10, <1>11, <1>12, <1>13, <1>14, <1>15, <1>16 DEF Next

\* chgrp, chmod, chown and du look a name up in the directory it was read from,
\* and an operand where they were started, if every directory can be entered
\* (chgrp.c:76-93 and alike).
THEOREM NamesStayLocal == Spec => []NamesAreLocal
  <1>1. TInv /\ NInv => NamesAreLocal
    BY Pop DEF TInv, NInv, NamesAreLocal, Walking, LocalOperands, Frame
  <1> QED BY InitTInv, NextTInv, InitEInv, NextEInv, InitNInv, NextNInv, <1>1, PTL DEF Spec

-----------------------------------------------------------------------------
(* What rm removes *)

\* The operands, and what the names where it was started lead to.
Around == Operands \cup Follow({k \in Nodes : Up[k] = Start})

RInv ==
    /\ tool # "rm" => gone = {}
    /\ tool = "rm" =>
          /\ cwd = Start
          /\ \A k \in 1..Len(stack) : stack[k].dir \in Around
    /\ \A n \in gone \ Mentioned :
          /\ Up[n] = Start
          /\ \E m \in Nodes : Name[m] = Name[n] /\ Up[m] \in Around

LEMMA NextRInv == TInv /\ EInv /\ RInv /\ [Next]_vars => RInv'
  <1> SUFFICES ASSUME TInv, EInv, RInv, [Next]_vars PROVE RInv'
    OBVIOUS
  <1>0. UNCHANGED <<tool, args>> /\ Mentioned' = Mentioned /\ Around' = Around
    <2>1. UNCHANGED <<tool, args>>
      BY DEF Next, vars, given, Retained, Walk, RemoveFile, MeasureFile, NotThere, Walked,
         Finish, EnterFails, Enter, Leave, Back, Descend, Visit, FindPasses, Found, Read,
         ActChange, ActMeasure, ActRemove
    <2> QED BY <2>1 DEF Mentioned, Operands, Around
  <1>1. stack \in Seq(Frames) /\ Len(stack) \in Nat
    BY DEF TInv
  <1>2. stack # <<>> =>
          /\ Frame = stack[1] /\ stack[1] \in Frames /\ Len(stack) >= 1
          /\ Tail(stack) \in Seq(Frames) /\ Len(Tail(stack)) = Len(stack) - 1
          /\ \A k \in 1..(Len(stack) - 1) : Tail(stack)[k] = stack[k + 1]
    BY <1>1, Pop DEF Frame
  <1>3. ASSUME tool = "rm" => UNCHANGED cwd, UNCHANGED gone,
               UNCHANGED stack \/ (stack # <<>> /\ stack' = Tail(stack))
        PROVE  RInv'
    <2>1. ASSUME NEW k \in 1..Len(stack')
          PROVE  \E j \in 1..Len(stack) : stack'[k] = stack[j]
      <3>1. CASE UNCHANGED stack
        BY <3>1
      <3>2. CASE stack # <<>> /\ stack' = Tail(stack)
        BY <1>1, <1>2, <3>2
      <3> QED BY <1>3, <3>1, <3>2
    <2> QED BY <1>0, <1>3, <2>1 DEF RInv
  <1>4. CASE Retained \/ Walk \/ MeasureFile \/ NotThere \/ Walked \/ Finish \/ EnterFails
    BY <1>3, <1>4 DEF Retained, Walk, MeasureFile, NotThere, Walked, Finish, EnterFails
  <1>5. CASE RemoveFile
    <2>1. tool = "rm" /\ cwd = Start /\ UNCHANGED <<cwd, stack>>
          /\ gone' \subseteq gone \cup Look(args[arg])
      BY <1>5 DEF RemoveFile, RInv
    <2>2. Look(args[arg]) \subseteq Mentioned
      BY <1>5, <2>1, OperandHere DEF RemoveFile
    <2> QED BY <1>0, <2>1, <2>2 DEF RInv
  <1>6. CASE Enter
    <2>1. PICK d \in Resolve(path) :
             /\ CanOpen(d)
             /\ stack' = <<[path |-> path, dir |-> d, todo |-> Entries(d), entry |-> d]>>
                            \o stack
             /\ Chdir(d)
      BY <1>6 DEF Enter
    <2> DEFINE f == [path |-> path, dir |-> d, todo |-> Entries(d), entry |-> d]
    <2>2. f \in Frames /\ f.dir = d
      BY <2>1 DEF CanOpen, Frames, Entries, Nodes, TInv
    <2> HIDE DEF f
    <2>3. /\ Len(stack') = Len(stack) + 1 /\ stack'[1] = f
          /\ \A k \in 1..Len(stack) : stack'[k + 1] = stack[k]
      BY <1>1, <2>1, <2>2, Push DEF f
    <2>4. tool = "rm" => d \in Around
      <3> SUFFICES ASSUME tool = "rm" PROVE d \in Around
        OBVIOUS
      <3>1. cwd = Start /\ pc = "enter" /\ arg <= Len(args)
        BY <1>6 DEF RInv, Enter, TInv
      <3>2. CASE stack = <<>>
        BY <2>1, <3>1, <3>2, OperandHere DEF EInv, Around
      <3>3. CASE stack # <<>>
        <4>1. Look(path) \subseteq {k \in Nodes : Up[k] = Start}
          BY <3>1, <3>3, EntryHere DEF EInv, InHand
        <4>2. Follow(Look(path)) \subseteq Follow({k \in Nodes : Up[k] = Start})
          BY <4>1 DEF Follow
        <4> QED BY <2>1, <4>2, Looked DEF Around
      <3> QED BY <3>2, <3>3
    <2>5. ASSUME tool = "rm", NEW k \in 1..Len(stack')
          PROVE  stack'[k].dir \in Around
      <3>1. CASE k = 1
        BY <2>2, <2>3, <2>4, <2>5, <3>1
      <3>2. CASE k > 1
        <4>1. k - 1 \in 1..Len(stack) /\ (k - 1) + 1 = k
          BY <1>1, <2>3, <3>2
        <4>2. stack'[k] = stack[k - 1]
          BY <2>3, <4>1
        <4> QED BY <2>5, <4>1, <4>2 DEF RInv
      <3> QED BY <3>1, <3>2
    <2>6. UNCHANGED gone /\ (tool = "rm" => UNCHANGED cwd)
      BY <1>6, <2>1 DEF Enter, Chdir, Chdirs
    <2> QED BY <1>0, <2>5, <2>6 DEF RInv
  <1>7. ASSUME NEW n \in Nodes, Descend(n) \/ Visit(n) \/ FindPasses(n) PROVE RInv'
    <2>1. Read(n) /\ stack # <<>>
      BY <1>7 DEF Descend, Visit, FindPasses, Read, TInv
    <2>2. /\ Len(stack') = Len(stack)
          /\ stack'[1] = [stack[1] EXCEPT !.todo = @ \ {n}, !.entry = n]
          /\ \A k \in 2..Len(stack) : stack'[k] = stack[k]
      BY <2>1, ReadStack DEF Read
    <2>3. stack'[1].dir = stack[1].dir
      BY <1>2, <2>1, <2>2 DEF Frames
    <2>4. \A k \in 1..Len(stack') : stack'[k].dir = stack[k].dir
      <3> SUFFICES ASSUME NEW k \in 1..Len(stack') PROVE stack'[k].dir = stack[k].dir
        OBVIOUS
      <3>1. k = 1 \/ k \in 2..Len(stack)
        BY <1>1, <2>2
      <3> QED BY <2>2, <2>3, <3>1
    <2> QED BY <1>0, <2>1, <2>2, <2>4 DEF RInv, Read
  <1>8. CASE Leave \/ Back \/ \E n \in Nodes : Found(n)
    BY <1>3, <1>8 DEF Leave, Back, Found, Chdir, Chdirs, Return, TInv
  <1>9. CASE ActChange \/ ActMeasure
    BY <1>3, <1>9 DEF ActChange, Change, ActMeasure, Return, TInv
  <1>10. CASE ActRemove
    <2>1. pc = "act" /\ stack # <<>> /\ tool = "rm" /\ cwd = Start /\ UNCHANGED cwd
          /\ (UNCHANGED stack \/ stack' = Tail(stack))
      BY <1>10 DEF ActRemove, TInv, RInv, Return
    <2>2. CASE UNCHANGED gone
      BY <1>3, <2>1, <2>2
    <2>3. CASE gone' = gone \cup Look(Name[stack[1].entry]) /\ UNCHANGED stack
      <3> DEFINE e == stack[1].entry
      <3>1. e \in Nodes /\ Up[e] = stack[1].dir
            /\ Look(Name[e]) = {n \in Nodes : Up[n] = cwd /\ Name[n] = Name[e]} \ gone
        BY <2>1, EntryHere DEF InHand
      <3>2. Up[e] \in Around
        BY <1>1, <1>2, <2>1, <3>1 DEF RInv
      <3>3. \A n \in gone' : n \in gone \/ (Up[n] = Start /\ Name[n] = Name[e])
        BY <2>1, <2>3, <3>1
      <3> QED BY <1>0, <2>1, <2>3, <3>1, <3>2, <3>3 DEF RInv
    <2>4. UNCHANGED gone \/ (gone' = gone \cup Look(Name[stack[1].entry]) /\ UNCHANGED stack)
      BY <1>2, <1>10, <2>1 DEF ActRemove
    <2> QED BY <2>2, <2>3, <2>4
  <1>11. CASE UNCHANGED vars
    BY <1>3, <1>11 DEF vars
  <1> QED BY <1>4, <1>5, <1>6, <1>7, <1>8, <1>9, <1>10, <1>11 DEF Next

-----------------------------------------------------------------------------
(* What the others change *)

\* The operands and what is below them.
Reach == Operands \cup UNION {Below[d] : d \in Operands}

BInv ==
    barred = {} /\ LocalOperands =>
        /\ has \subseteq Follow(Reach)
        /\ Walking => \A k \in 1..Len(stack) : stack[k].dir \in Reach

\* What is in one of them is one of them.
LEMMA ReachClosed ==
    ASSUME TypeOK, NEW m \in Nodes, Up[m] \in Reach
    PROVE  m \in Reach
  <1>1. Operands \subseteq Nodes
    BY OperandNodes
  <1>2. PICK d \in Operands : Up[m] = d \/ Up[m] \in Below[d]
    BY DEF Reach
  <1>3. Below[d] = {n \in Nodes : \A S \in SUBSET Nodes :
           (\A k \in Nodes : k # d /\ Up[k] \in S \cup {d} => k \in S) => n \in S}
    BY <1>1 DEF Below
  <1>4. CASE m = d
    BY <1>4 DEF Reach
  <1>5. CASE m # d
    <2>1. ASSUME NEW S \in SUBSET Nodes,
                 \A k \in Nodes : k # d /\ Up[k] \in S \cup {d} => k \in S
          PROVE  m \in S
      <3>1. Up[m] \in S \cup {d}
        BY <1>2, <1>3, <2>1
      <3> QED BY <1>5, <2>1, <3>1
    <2>2. m \in Below[d]
      BY <1>3, <2>1
    <2> QED BY <2>2 DEF Reach
  <1> QED BY <1>4, <1>5

\* Links in it may be followed; what is no link is led to by itself.
LEMMA ReachFollowed ==
    /\ Operands \subseteq Reach /\ Operands \subseteq Follow(Reach)
    /\ \A S \in SUBSET Reach : Follow(S) \subseteq Follow(Reach)
  <1>1. Operands \subseteq Reach
    BY DEF Reach
  <1>2. Operands \cap Links = {}
    BY OperandNodes, FollowNodes DEF Operands
  <1>3. \A S \in SUBSET Reach : Follow(S) \subseteq Follow(Reach)
    BY DEF Follow
  <1> QED BY <1>1, <1>2, <1>3 DEF Follow

LEMMA NextBInv == TInv /\ NInv /\ EInv /\ BInv /\ [Next]_vars => BInv'
  <1> SUFFICES ASSUME TInv, NInv, EInv, BInv, [Next]_vars, barred' = {}, LocalOperands'
               PROVE  BInv'
    BY DEF BInv
  <1>0. UNCHANGED given /\ Operands' = Operands /\ Reach' = Reach
    <2>1. UNCHANGED given
      BY DEF Next, vars, Retained, Walk, RemoveFile, MeasureFile, NotThere, Walked, Finish,
         EnterFails, Enter, Leave, Back, Descend, Visit, FindPasses, Found, Read, ActChange,
         ActMeasure, ActRemove
    <2> QED BY <2>1 DEF given, Mentioned, Operands, Reach
  <1>00. barred = {} /\ LocalOperands
    BY <1>0 DEF given, LocalOperands
  <1>1. /\ stack \in Seq(Frames) /\ Len(stack) \in Nat /\ tool \in Tools
        /\ has \subseteq Follow(Reach)
        /\ Walking => \A k \in 1..Len(stack) : stack[k].dir \in Reach
    BY <1>00 DEF BInv, TInv, TypeOK
  <1>2. stack # <<>> =>
          /\ Frame = stack[1] /\ stack[1] \in Frames /\ Len(stack) >= 1
          /\ Tail(stack) \in Seq(Frames) /\ Len(Tail(stack)) = Len(stack) - 1
          /\ \A k \in 1..(Len(stack) - 1) : Tail(stack)[k] = stack[k + 1]
    BY <1>1, Pop DEF Frame
  <1>3. ASSUME has' \subseteq has \cup Follow(Reach),
               UNCHANGED stack \/ (stack # <<>> /\ stack' = Tail(stack))
        PROVE  BInv'
    <2>1. ASSUME NEW k \in 1..Len(stack')
          PROVE  \E j \in 1..Len(stack) : stack'[k] = stack[j]
      <3>1. CASE UNCHANGED stack
        BY <3>1
      <3>2. CASE stack # <<>> /\ stack' = Tail(stack)
        BY <1>1, <1>2, <3>2
      <3> QED BY <1>3, <3>1, <3>2
    <2> QED BY <1>0, <1>1, <1>3, <2>1 DEF BInv, Walking, given
  <1>4. CASE Retained \/ Walk \/ RemoveFile \/ NotThere \/ Walked \/ Finish \/ EnterFails
    BY <1>3, <1>4 DEF Retained, Walk, RemoveFile, NotThere, Walked, Finish, EnterFails
  <1>5. CASE MeasureFile
    <2>1. tool = "du" /\ pc = "main" /\ stack = <<>> /\ UNCHANGED stack
          /\ has' = has \cup Resolve(args[arg]) /\ arg <= Len(args)
      BY <1>5 DEF MeasureFile, TInv
    <2>2. cwd = Start
      BY <1>00, <2>1 DEF NInv, Walking
    <2> QED BY <1>3, <2>1, <2>2, OperandHere, ReachFollowed
  <1>6. CASE Enter
    <2>1. PICK d \in Resolve(path) :
             /\ CanOpen(d)
             /\ stack' = <<[path |-> path, dir |-> d, todo |-> Entries(d), entry |-> d]>>
                            \o stack
      BY <1>6 DEF Enter
    <2> DEFINE f == [path |-> path, dir |-> d, todo |-> Entries(d), entry |-> d]
    <2>2. f \in Frames /\ f.dir = d /\ d \in Nodes
      BY <2>1 DEF CanOpen, Frames, Entries, Nodes, TInv
    <2> HIDE DEF f
    <2>3. /\ Len(stack') = Len(stack) + 1 /\ stack'[1] = f
          /\ \A k \in 1..Len(stack) : stack'[k + 1] = stack[k]
      BY <1>1, <2>1, <2>2, Push DEF f
    <2>4. Walking => d \in Reach
      <3> SUFFICES ASSUME Walking PROVE d \in Reach
        OBVIOUS
      <3>1. pc = "enter" /\ arg <= Len(args)
        BY <1>6 DEF Enter, TInv
      <3>2. CASE stack = <<>>
        <4>1. cwd = Start /\ path = args[arg]
          BY <1>00, <3>1, <3>2 DEF NInv
        <4> QED BY <2>1, <3>1, <4>1, OperandHere DEF Reach
      <3>3. CASE stack # <<>>
        <4>1. cwd = stack[1].dir /\ path = Name[stack[1].entry] /\ 1 \in 1..Len(stack)
          BY <1>1, <1>2, <3>1, <3>3 DEF NInv, EInv
        <4>2. Up[d] = stack[1].dir
          BY <2>1, <3>1, <3>3, <4>1, EntryEntered DEF InHand
        <4> QED BY <1>1, <2>2, <4>1, <4>2, ReachClosed DEF TInv
      <3> QED BY <3>2, <3>3
    <2>5. ASSUME Walking, NEW k \in 1..Len(stack') PROVE stack'[k].dir \in Reach
      <3>1. CASE k = 1
        BY <2>2, <2>3, <2>4, <2>5, <3>1
      <3>2. CASE k > 1
        <4>1. k - 1 \in 1..Len(stack) /\ (k - 1) + 1 = k
          BY <1>1, <2>3, <3>2
        <4>2. stack'[k] = stack[k - 1]
          BY <2>3, <4>1
        <4> QED BY <1>1, <2>5, <4>1, <4>2
      <3> QED BY <3>1, <3>2
    <2>6. UNCHANGED has
      BY <1>6 DEF Enter
    <2> QED BY <1>0, <1>1, <2>5, <2>6 DEF BInv, Walking, given
  <1>7. ASSUME NEW n \in Nodes, Descend(n) \/ Visit(n) \/ FindPasses(n) PROVE BInv'
    <2>1. Read(n) /\ stack # <<>>
      BY <1>7 DEF Descend, Visit, FindPasses, Read, TInv
    <2>2. /\ Len(stack') = Len(stack)
          /\ stack'[1] = [stack[1] EXCEPT !.todo = @ \ {n}, !.entry = n]
          /\ \A k \in 2..Len(stack) : stack'[k] = stack[k]
      BY <2>1, ReadStack DEF Read
    <2>3. stack'[1].dir = stack[1].dir
      BY <1>2, <2>1, <2>2 DEF Frames
    <2>4. \A k \in 1..Len(stack') : stack'[k].dir = stack[k].dir
      <3> SUFFICES ASSUME NEW k \in 1..Len(stack') PROVE stack'[k].dir = stack[k].dir
        OBVIOUS
      <3>1. k = 1 \/ k \in 2..Len(stack)
        BY <1>1, <2>2
      <3> QED BY <2>2, <2>3, <3>1
    <2> QED BY <1>0, <1>1, <2>1, <2>2, <2>4 DEF BInv, Walking, given, Read
  <1>8. CASE Leave \/ Back \/ \E n \in Nodes : Found(n)
    BY <1>3, <1>8 DEF Leave, Back, Found, TInv
  <1>9. ASSUME pc = "act", stack # <<>>, Walking
        PROVE  Resolve(Name[stack[1].entry]) \cup Resolve(stack[1].path) \subseteq Follow(Reach)
    <2>1. cwd = stack[1].dir /\ cwd \in Reach
      BY <1>1, <1>2, <1>9 DEF NInv
    <2>2. stack[1].path \in Nodes => stack[1].path \in Mentioned
      BY <1>1, <1>2, <1>9 DEF EInv
    <2>3. \A n \in Nodes : Up[n] = cwd => n \in Reach
      BY <2>1, ReachClosed DEF TInv
    <2>4. Look(Name[stack[1].entry]) \subseteq Reach
      BY <1>9, <2>3, EntryHere DEF InHand
    <2>5. CASE stack[1].path \in Nodes
      <3>1. Look(stack[1].path) \subseteq Mentioned
        BY <2>2, <2>5 DEF Look
      <3>2. Follow(Look(stack[1].path)) \subseteq Operands
        BY <3>1 DEF Follow, Operands
      <3> QED BY <2>4, <3>2, Looked, ReachFollowed
    <2>6. CASE stack[1].path \notin Nodes
      <3>1. Look(stack[1].path) \subseteq Reach
        BY <2>3, <2>6 DEF Look
      <3> QED BY <2>4, <3>1, Looked, ReachFollowed
    <2> QED BY <2>5, <2>6
  <1>10. CASE ActChange \/ ActMeasure
    <2>1. pc = "act" /\ stack # <<>> /\ Walking
      BY <1>00, <1>10 DEF ActChange, ActMeasure, Changes, Walking, TInv
    <2>2. has' \subseteq has \cup Resolve(Name[stack[1].entry]) \cup Resolve(stack[1].path)
          /\ (UNCHANGED stack \/ stack' = Tail(stack))
      BY <1>2, <1>10, <2>1 DEF ActChange, Change, ActMeasure
    <2> QED BY <1>3, <1>9, <2>1, <2>2
  <1>11. CASE ActRemove
    BY <1>3, <1>11 DEF ActRemove, TInv
  <1>12. CASE UNCHANGED vars
    BY <1>3, <1>12 DEF vars
  <1> QED BY <1>4, <1>5, <1>6, <1>7, <1>8, <1>10, <1>11, <1>12 DEF Next

\* chgrp, chmod, chown and du change and measure nothing but their operands,
\* what is below them and what the links there lead to, if every directory can
\* be entered; rm removes nothing but its operands and, where it was started,
\* what has the name of an entry (chgrp.c:76-93 and alike, rm.c:69-73).
THEOREM WalksStayBelow == Spec => []WalkStaysBelow
  <1>1. Init => RInv /\ BInv
    BY ReachFollowed DEF Init, RInv, BInv
  <1>2. RInv /\ BInv => WalkStaysBelow
    BY DEF RInv, BInv, WalkStaysBelow, Reach, Around
  <1> QED BY InitTInv, NextTInv, InitNInv, NextNInv, InitEInv, NextEInv, NextRInv, NextBInv,
      <1>1, <1>2, PTL DEF Spec

-----------------------------------------------------------------------------
(* chgrp -r misses nothing *)

Complete == Walking /\ tool = "chgrp" /\ LocalOperands

Failing == pc = "failed" \/ (pc = "back" /\ ret < 0)

Kids(d) == {m \in Nodes : Up[m] = d /\ m # d}

\* What an operand names, and what it stands for, when the tool is called.
Mention(j) ==
    IF args[j] \in Nodes THEN {args[j]}
    ELSE {n \in Nodes : Up[n] = Start /\ Name[n] = args[j]}
Operand(j) == Follow(Mention(j))

\* What links lead to.
Led == Follow(Links)

\* D are the nodes that were handled with all that is below them: changed, or
\* links.  An entry has been handled, or is in hand, or has yet to be read.
Done(D) ==
    /\ D \ Links \subseteq has /\ has \subseteq had \cup D \cup Led
    /\ \A m \in Nodes : Up[m] \in D => m \in D
    /\ \A j \in 1..Len(args) :
          j < arg \/ (j = arg /\ pc = "back" /\ stack = <<>>) =>
              \A d \in Operand(j) : d \in had \cup Led \/ Kids(d) \subseteq D
    /\ \A k \in 1..Len(stack) :
          Kids(stack[k].dir) \subseteq stack[k].todo \cup D
              \cup (IF k > 1 \/ InHand THEN {stack[k].entry} ELSE {})
    /\ \A k \in 1..(Len(stack) - 1) : stack[k].dir = stack[k + 1].entry
    /\ stack # <<>> => Operand(arg) = {stack[Len(stack)].dir}
    /\ stack # <<>> /\ pc \in {"act", "back"} => Kids(stack[1].entry) \subseteq D
    /\ pc = "ok" => arg > Len(args)

CInv == Complete => Failing \/ \E D \in SUBSET Nodes : Done(D)

LEMMA InitCInv == Init => CInv
  <1> SUFFICES ASSUME Init PROVE Done({})
    BY DEF CInv
  <1>1. stack = <<>> /\ Len(stack) = 0 /\ arg = 1 /\ pc = "main" /\ has = had
    BY DEF Init
  <1>2. Len(args) \in Nat
    BY OperandsHave DEF Init
  <1> QED BY <1>1, <1>2 DEF Done

\* A name is the name of one node.
LEMMA OneNode ==
    ASSUME NEW j \in 1..Len(args), NEW d \in Operand(j), NEW e \in Operand(j)
    PROVE  d = e
  <1>1. \A m, n \in Mention(j) : m = n
    BY TreeAssumption DEF Mention
  <1>2. \A l \in Links : \A m, n \in Leads[l] : m = n
    BY LinksAssumption
  <1> QED BY <1>1, <1>2 DEF Operand, Follow

LEMMA NextCInv == TInv /\ NInv /\ EInv /\ CInv /\ [Next]_vars => CInv'
  <1> SUFFICES ASSUME TInv, NInv, EInv, CInv, [Next]_vars, Complete'
               PROVE  Failing' \/ \E D \in SUBSET Nodes : Done(D)'
    BY DEF CInv
  <1>0. UNCHANGED given /\ \A j : Operand(j)' = Operand(j)
    <2>1. UNCHANGED given
      BY DEF Next, vars, Retained, Walk, RemoveFile, MeasureFile, NotThere, Walked, Finish,
         EnterFails, Enter, Leave, Back, Descend, Visit, FindPasses, Found, Read, ActChange,
         ActMeasure, ActRemove
    <2> QED BY <2>1 DEF given, Operand, Mention
  <1>00. barred = {} /\ LocalOperands /\ tool = "chgrp" /\ Walking /\ Changes
    BY <1>0 DEF given, Complete, LocalOperands, Mentioned, Operands, Walking, Changes
  <1>1. /\ stack \in Seq(Frames) /\ Len(stack) \in Nat /\ gone = {}
        /\ args \in Calls /\ Len(args) \in Nat /\ arg \in 1..(Len(args) + 1)
    BY <1>00, OperandsHave DEF NInv, TInv, TypeOK
  <1>2. stack # <<>> =>
          /\ Frame = stack[1] /\ stack[1] \in Frames /\ Len(stack) >= 1
          /\ Tail(stack) \in Seq(Frames) /\ Len(Tail(stack)) = Len(stack) - 1
          /\ \A k \in 1..(Len(stack) - 1) : Tail(stack)[k] = stack[k + 1]
    BY <1>1, Pop DEF Frame
  <1>3. /\ ~RemoveFile /\ ~MeasureFile /\ ~NotThere /\ ~ActMeasure /\ ~ActRemove
        /\ \A n \in Nodes : ~FindPasses(n) /\ ~Found(n)
    BY <1>00 DEF RemoveFile, MeasureFile, NotThere, ActMeasure, ActRemove, FindPasses, Found
  <1>4. CASE Failing
    <2>1. CASE Back \/ Walked
      BY <1>00, <1>4, <2>1 DEF Failing, Back, Walked
    <2>2. CASE UNCHANGED vars
      BY <1>4, <2>2 DEF Failing, vars
    <2>3. CASE Retained \/ Walk \/ Finish \/ EnterFails \/ Enter \/ Leave \/ ActChange
      BY <1>4, <2>3 DEF Failing, Retained, Walk, Finish, EnterFails, Enter, Leave, ActChange
    <2>4. CASE \E n \in Nodes : Descend(n) \/ Visit(n)
      BY <1>4, <2>4 DEF Failing, Descend, Visit, Read
    <2> QED BY <1>3, <2>1, <2>2, <2>3, <2>4 DEF Next
  <1>5. ASSUME ~Failing, NEW D \in SUBSET Nodes, Done(D)
        PROVE  Failing' \/ \E E \in SUBSET Nodes : Done(E)'
    <2> USE <1>0 DEF given
    <2>0. Operand(arg) = Resolve(args[arg]) \/ cwd # Start
      BY <1>1 DEF Operand, Mention, Resolve, Look
    <2>1. CASE Retained
      <3>1. /\ pc = "main" /\ stack = <<>> /\ arg <= Len(args) /\ Resolve(args[arg]) \subseteq has
            /\ pc' = "main" /\ stack' = <<>> /\ arg' = arg + 1 /\ UNCHANGED has
        BY <2>1 DEF Retained, TInv
      <3>2. Operand(arg) \subseteq has
        BY <1>00, <2>0, <3>1 DEF NInv
      <3>3. \A d \in Operand(arg) : d \in had \cup Led \/ Kids(d) \subseteq D
        BY <1>5, <3>2 DEF Done, Kids
      <3>4. \A j \in 1..Len(args) : j < arg + 1 => j < arg \/ j = arg
        BY <1>1
      <3>5. Done(D)'
        BY <1>1, <1>5, <3>1, <3>3, <3>4 DEF Done, Kids
      <3> QED BY <3>5
    <2>2. CASE Walk \/ Finish \/ UNCHANGED vars
      <3>1. CASE UNCHANGED vars
        <4>1. Done(D)'
          BY <1>5, <3>1 DEF vars, Done, Kids, InHand
        <4> QED BY <4>1
      <3>2. CASE Walk \/ Finish
        <4>1. /\ pc = "main" /\ stack = <<>> /\ stack' = <<>> /\ UNCHANGED <<arg, has>>
              /\ pc' \in {"enter", "ok"} /\ (pc' = "ok" => arg > Len(args))
          BY <3>2 DEF Walk, Finish, TInv
        <4>2. Done(D)'
          BY <1>1, <1>5, <4>1 DEF Done, Kids
        <4> QED BY <4>2
      <3> QED BY <2>2, <3>1, <3>2
    <2>3. CASE Walked
      <3>1. /\ pc = "back" /\ stack = <<>> /\ stack' = <<>> /\ UNCHANGED has
            /\ pc' = "main" /\ arg' = arg + 1
        BY <1>00, <1>1, <1>5, <2>3 DEF Walked, Failing
      <3>2. \A j \in 1..Len(args) : j < arg + 1 => j < arg \/ j = arg
        BY <1>1
      <3>3. Done(D)'
        BY <1>1, <1>5, <3>1, <3>2 DEF Done, Kids
      <3> QED BY <3>3
    <2>4. CASE EnterFails
      BY <2>4 DEF EnterFails, Return, Failing
    <2>5. CASE Enter
      <3>0. pc = "enter" /\ arg \in 1..Len(args) /\ pc' = "loop" /\ UNCHANGED <<arg, has>>
        BY <1>1, <2>5 DEF Enter, TInv
      <3>1. PICK d \in Resolve(path) :
               /\ CanOpen(d)
               /\ stack' = <<[path |-> path, dir |-> d, todo |-> Entries(d), entry |-> d]>>
                              \o stack
        BY <2>5 DEF Enter
      <3> DEFINE f == [path |-> path, dir |-> d, todo |-> Entries(d), entry |-> d]
      <3>2. f \in Frames /\ f.dir = d /\ d \in Nodes /\ f.todo = Entries(d)
        BY <3>1 DEF CanOpen, Frames, Entries, Nodes, TInv
      <3>3. Kids(d) \subseteq f.todo
        BY <1>1, <3>2 DEF Entries, Kids
      <3> HIDE DEF f
      <3>4. /\ Len(stack') = Len(stack) + 1 /\ stack'[1] = f /\ stack' # <<>>
            /\ \A k \in 1..Len(stack) : stack'[k + 1] = stack[k]
        BY <1>1, <3>1, <3>2, Push DEF f
      <3>5. stack # <<>> => d = stack[1].entry
        <4> SUFFICES ASSUME stack # <<>> PROVE d = stack[1].entry
          OBVIOUS
        <4>1. path = Name[stack[1].entry] /\ cwd = stack[1].dir
          BY <1>00, <3>0 DEF NInv, EInv
        <4> QED BY <3>0, <3>1, <4>1, EntryEntered DEF InHand
      <3>6. stack = <<>> => Operand(arg) = {d}
        <4> SUFFICES ASSUME stack = <<>> PROVE Operand(arg) = {d}
          OBVIOUS
        <4>1. path = args[arg] /\ cwd = Start
          BY <1>00, <3>0 DEF NInv
        <4>2. d \in Operand(arg)
          BY <2>0, <3>1, <4>1
        <4> QED BY <3>0, <4>2, OneNode
      <3>7. ASSUME NEW k \in 1..Len(stack')
            PROVE  Kids(stack'[k].dir) \subseteq stack'[k].todo \cup D
                      \cup (IF k > 1 THEN {stack'[k].entry} ELSE {})
        <4>1. CASE k = 1
          BY <3>2, <3>3, <3>4, <4>1
        <4>2. CASE k > 1
          <5>1. k - 1 \in 1..Len(stack) /\ (k - 1) + 1 = k
            BY <1>1, <3>4, <4>2
          <5>2. stack'[k] = stack[k - 1]
            BY <3>4, <5>1
          <5>3. Kids(stack[k - 1].dir) \subseteq stack[k - 1].todo \cup D \cup {stack[k - 1].entry}
            BY <1>5, <3>0, <5>1 DEF Done, InHand
          <5> QED BY <4>2, <5>2, <5>3
        <4> QED BY <1>1, <3>4, <4>1, <4>2
      <3>8. ASSUME NEW k \in 1..(Len(stack') - 1) PROVE stack'[k].dir = stack'[k + 1].entry
        <4>0. k \in 1..Len(stack) /\ stack'[k + 1] = stack[k]
          BY <1>1, <3>4
        <4>1. CASE k = 1
          BY <1>1, <3>2, <3>4, <3>5, <4>0, <4>1
        <4>2. CASE k > 1
          <5>1. k - 1 \in 1..Len(stack) /\ k - 1 \in 1..(Len(stack) - 1) /\ (k - 1) + 1 = k
            BY <1>1, <4>0, <4>2
          <5>2. stack'[k] = stack[k - 1]
            BY <3>4, <5>1
          <5> QED BY <1>5, <4>0, <5>1, <5>2 DEF Done
        <4> QED BY <1>1, <3>4, <4>1, <4>2
      <3>9. Operand(arg) = {stack'[Len(stack')].dir}
        <4>1. CASE stack = <<>>
          BY <3>2, <3>4, <3>6, <4>1
        <4>2. CASE stack # <<>>
          <5>1. Len(stack) \in 1..Len(stack) /\ Len(stack') = Len(stack) + 1
            BY <1>1, <1>2, <3>4, <4>2
          <5>2. stack'[Len(stack')] = stack[Len(stack)]
            BY <3>4, <5>1
          <5> QED BY <1>5, <4>2, <5>2 DEF Done
        <4> QED BY <4>1, <4>2
      <3>10. Done(D)'
        BY <1>1, <1>5, <3>0, <3>7, <3>8, <3>9 DEF Done, Kids, InHand
      <3> QED BY <3>10
    <2>6. ASSUME NEW n \in Nodes, Descend(n) \/ Visit(n) PROVE Done(D)'
      <3>1. /\ Read(n) /\ pc = "loop" /\ stack # <<>> /\ UNCHANGED <<arg, has>>
            /\ pc' = "enter" \/ (pc' = "act" /\ n \notin Dirs)
        BY <2>6 DEF Descend, Visit, Read, TInv
      <3>2. /\ Len(stack') = Len(stack) /\ stack' # <<>>
            /\ stack'[1] = [stack[1] EXCEPT !.todo = @ \ {n}, !.entry = n]
            /\ \A k \in 2..Len(stack) : stack'[k] = stack[k]
        BY <3>1, ReadStack DEF Read
      <3>3. /\ stack'[1].dir = stack[1].dir /\ stack'[1].entry = n
            /\ stack'[1].todo = stack[1].todo \ {n}
        BY <1>2, <3>1, <3>2 DEF Frames
      <3>4. \A k \in 1..Len(stack) : stack'[k].dir = stack[k].dir
        <4> SUFFICES ASSUME NEW k \in 1..Len(stack) PROVE stack'[k].dir = stack[k].dir
          OBVIOUS
        <4>1. k = 1 \/ k \in 2..Len(stack)
          BY <1>1
        <4> QED BY <3>2, <3>3, <4>1
      <3>5. ASSUME NEW k \in 1..Len(stack')
            PROVE  Kids(stack'[k].dir) \subseteq stack'[k].todo \cup D \cup {stack'[k].entry}
        <4>1. CASE k = 1
          <5>1. Kids(stack[1].dir) \subseteq stack[1].todo \cup D
            BY <1>1, <1>2, <1>5, <3>1 DEF Done, InHand
          <5> QED BY <3>3, <4>1, <5>1
        <4>2. CASE k > 1
          <5>1. k \in 1..Len(stack) /\ stack'[k] = stack[k]
            BY <1>1, <3>2, <4>2
          <5>2. Kids(stack[k].dir) \subseteq stack[k].todo \cup D \cup {stack[k].entry}
            BY <1>5, <4>2, <5>1 DEF Done
          <5> QED BY <5>1, <5>2
        <4> QED BY <1>1, <3>2, <4>1, <4>2
      <3>6. ASSUME NEW k \in 1..(Len(stack') - 1) PROVE stack'[k].dir = stack'[k + 1].entry
        <4>1. /\ k \in 1..(Len(stack) - 1) /\ k \in 1..Len(stack) /\ k + 1 \in 2..Len(stack)
          BY <1>1, <3>2
        <4> QED BY <1>5, <3>2, <3>4, <4>1 DEF Done
      <3>7. Operand(arg) = {stack'[Len(stack')].dir}
        <4>1. Len(stack) \in 1..Len(stack)
          BY <1>1, <1>2, <3>1
        <4> QED BY <1>5, <3>1, <3>2, <3>4, <4>1 DEF Done
      <3>8. pc' = "act" => Kids(stack'[1].entry) \subseteq D
        <4> SUFFICES ASSUME n \notin Dirs PROVE Kids(n) = {}
          BY <3>1, <3>3
        <4> QED BY TreeAssumption DEF Kids, Nodes
      <3> QED BY <1>1, <1>5, <3>1, <3>2, <3>5, <3>6, <3>7, <3>8 DEF Done, Kids, InHand
    <2>7. CASE Leave
      <3>1. /\ pc = "loop" /\ stack # <<>> /\ stack[1].todo = {} /\ UNCHANGED <<arg, has>>
            /\ pc' = "back" /\ stack' = Tail(stack)
        BY <1>2, <2>7 DEF Leave, Return, TInv
      <3>2. Kids(stack[1].dir) \subseteq D
        BY <1>1, <1>2, <1>5, <3>1 DEF Done, InHand
      <3>3. /\ Len(stack') = Len(stack) - 1 /\ Len(stack') \in Nat
            /\ \A k \in 1..Len(stack') : stack'[k] = stack[k + 1]
        BY <1>1, <1>2, <3>1
      <3>4. ASSUME NEW k \in 1..Len(stack')
            PROVE  Kids(stack'[k].dir) \subseteq stack'[k].todo \cup D \cup {stack'[k].entry}
        <4>1. k + 1 \in 1..Len(stack) /\ k + 1 > 1 /\ stack'[k] = stack[k + 1]
          BY <1>1, <3>3
        <4> QED BY <1>5, <4>1 DEF Done
      <3>5. ASSUME NEW k \in 1..(Len(stack') - 1) PROVE stack'[k].dir = stack'[k + 1].entry
        <4>1. /\ k + 1 \in 1..(Len(stack) - 1)
              /\ stack'[k] = stack[k + 1] /\ stack'[k + 1] = stack[(k + 1) + 1]
          BY <1>1, <3>3, SMTT(30)
        <4> QED BY <1>5, <4>1 DEF Done
      <3>6. Operand(arg) = {stack[Len(stack)].dir}
        BY <1>5, <3>1 DEF Done
      <3>7. ASSUME stack' # <<>>
            PROVE  /\ Operand(arg) = {stack'[Len(stack')].dir}
                   /\ Kids(stack'[1].entry) \subseteq D
        <4>1. Len(stack') # 0
          BY <1>2, <3>1, <3>7
        <4>2. /\ Len(stack') >= 1 /\ 1 \in 1..(Len(stack) - 1)
              /\ stack'[Len(stack')] = stack[Len(stack)] /\ stack'[1] = stack[2]
          BY <1>1, <3>3, <4>1
        <4>3. stack[1].dir = stack[2].entry
          BY <1>5, <4>2 DEF Done
        <4> QED BY <3>2, <3>6, <4>2, <4>3
      <3>8. stack' = <<>> => \A d \in Operand(arg) : d \in had \cup Led \/ Kids(d) \subseteq D
        <4> SUFFICES ASSUME stack' = <<>>
                     PROVE  \A d \in Operand(arg) : Kids(d) \subseteq D
          OBVIOUS
        <4>1. Len(stack') = 0
          OBVIOUS
        <4>2. Len(stack) = 1
          BY <1>1, <3>3, <4>1
        <4> QED BY <3>2, <3>6, <4>2
      <3>9. Done(D)'
        BY <1>1, <1>5, <3>1, <3>4, <3>5, <3>7, <3>8 DEF Done, Kids, InHand
      <3> QED BY <3>9
    <2>8. CASE Back
      <3>1. /\ pc = "back" /\ stack # <<>> /\ UNCHANGED <<stack, arg, has>> /\ pc' = "act"
        BY <1>00, <1>5, <2>8 DEF Back, Failing
      <3>2. Done(D)'
        BY <1>1, <1>5, <3>1 DEF Done, Kids, InHand
      <3> QED BY <3>2
    <2>9. CASE ActChange
      <3> DEFINE e == stack[1].entry
      <3>1. /\ pc = "act" /\ stack # <<>> /\ UNCHANGED arg
            /\ Change(Name[e])
        BY <1>00, <1>2, <2>9 DEF ActChange, TInv
      <3>2. CASE Resolve(Name[e]) \subseteq stuck
        BY <3>1, <3>2 DEF Change, Return, Failing
      <3>3. CASE ~(Resolve(Name[e]) \subseteq stuck)
        <4>1. pc' = "loop" /\ UNCHANGED <<stack, arg>> /\ has' = has \cup Resolve(Name[e])
          BY <3>1, <3>3 DEF Change
        <4>2. e \in Nodes /\ Look(Name[e]) = {e}
          BY <1>00, <1>1, <3>1, EntryHere, EntryEntered DEF InHand, NInv
        <4>3. Resolve(Name[e]) = Follow({e})
          BY <1>1, <4>2 DEF Resolve
        <4>31. e \notin Links => Follow({e}) = {e}
          BY DEF Follow
        <4>32. e \in Links => Follow({e}) \subseteq Led
          BY DEF Follow, Led
        <4> DEFINE E == D \cup {e}
        <4>4. E \in SUBSET Nodes
          BY <4>2
        <4>5. Kids(e) \subseteq D
          BY <1>5, <3>1 DEF Done
        <4>60. E \ Links \subseteq has' /\ has' \subseteq had \cup E \cup Led
          BY <1>5, <4>1, <4>3, <4>31, <4>32 DEF Done
        <4>6. /\ E \ Links \subseteq has' /\ has' \subseteq had \cup E \cup Led
              /\ \A m \in Nodes : Up[m] \in E => m \in E
          BY <1>5, <4>5, <4>60 DEF Done, Kids
        <4>7. \A j \in 1..Len(args) : j < arg =>
                 \A d \in Operand(j) : d \in had \cup Led \/ Kids(d) \subseteq E
          BY <1>5 DEF Done
        <4>8. \A k \in 1..Len(stack) :
                 Kids(stack[k].dir) \subseteq stack[k].todo \cup E
                    \cup (IF k > 1 THEN {stack[k].entry} ELSE {})
          <5> SUFFICES ASSUME NEW k \in 1..Len(stack)
                       PROVE  Kids(stack[k].dir) \subseteq stack[k].todo \cup E
                                 \cup (IF k > 1 THEN {stack[k].entry} ELSE {})
            OBVIOUS
          <5>1. Kids(stack[k].dir) \subseteq stack[k].todo \cup D \cup {stack[k].entry}
            BY <1>5, <3>1 DEF Done, InHand
          <5>2. CASE k = 1
            BY <5>1, <5>2
          <5>3. CASE k > 1
            BY <5>1, <5>3
          <5> QED BY <1>1, <5>2, <5>3
        <4>9. E' = E
          BY <4>1
        <4> HIDE DEF E
        <4>10. Done(E)'
          BY <1>5, <3>1, <4>1, <4>6, <4>7, <4>8, <4>9 DEF Done, Kids, InHand
        <4> QED BY <4>4, <4>9, <4>10
      <3> QED BY <3>2, <3>3
    <2> QED BY <1>3, <2>1, <2>2, <2>3, <2>4, <2>5, <2>6, <2>7, <2>8, <2>9 DEF Next
  <1> QED BY <1>00, <1>4, <1>5 DEF CInv, Complete

\* If chgrp -r succeeds it has changed the group of everything below its
\* operands, but for links and for operands that had it themselves or that a
\* link leads to (chgrp.c:45-96).
THEOREM ChgrpCompletes == Spec => []ChgrpIsComplete
  <1>1. ASSUME TInv, CInv, pc = "ok", tool = "chgrp", barred = {}, LocalOperands,
               NEW d \in Operands \ (had \cup Follow(Links))
        PROVE  Below[d] \ Links \subseteq has
    <2>1. Complete /\ ~Failing
      BY <1>1 DEF Complete, Walking, Failing
    <2>2. PICK D \in SUBSET Nodes : Done(D)
      BY <1>1, <2>1 DEF CInv
    <2>3. Len(args) \in Nat /\ DOMAIN args = 1..Len(args) /\ d \in Nodes
      BY <1>1, OperandsHave, OperandNodes DEF TInv, TypeOK
    <2>4. PICK j \in 1..Len(args) : d \in Operand(j)
      <3>1. Mentioned = UNION {Mention(j) : j \in 1..Len(args)}
        BY <2>3 DEF Mentioned, Mention
      <3>2. \A n \in Mentioned : \E j \in 1..Len(args) : n \in Mention(j)
        BY <3>1
      <3> QED BY <1>1, <3>2 DEF Operands, Operand, Follow
    <2>5. j < arg
      BY <1>1, <2>2, <2>3 DEF Done, TInv, TypeOK
    <2>6. Kids(d) \subseteq D
      BY <1>1, <2>2, <2>4, <2>5 DEF Done, Led
    <2>7. \A m \in Nodes : m # d /\ Up[m] \in D \cup {d} => m \in D
      BY <2>2, <2>6 DEF Done, Kids
    <2>8. Below[d] \subseteq D
      BY <2>2, <2>3, <2>7 DEF Below
    <2> QED BY <2>2, <2>8 DEF Done
  <1>2. TInv /\ CInv => ChgrpIsComplete
    BY <1>1 DEF ChgrpIsComplete
  <1> QED BY InitTInv, NextTInv, InitNInv, NextNInv, InitEInv, NextEInv, InitCInv, NextCInv,
      <1>2, PTL DEF Spec
=============================================================================
