----------------------------- MODULE CopyProofs -----------------------------
(***************************************************************************)
(* Theorems of the tools that copy, move, link and make, for every tree,   *)
(* every sequence of commands, and whatever refuses.                       *)
(***************************************************************************)
EXTENDS CopyMove, Recursion

-----------------------------------------------------------------------------
(* Lookup of paths *)

Leading == [Dirs -> [Paths -> SUBSET Places]]

LEMMA PathTypes ==
    ASSUME NEW p \in Paths, p # <<>>
    PROVE  /\ Head(p) \in Names \cup {"/"} /\ Tail(p) \in Paths
           /\ \A q \in Paths : q \o Tail(p) \in Paths
  BY DEF Paths

LEMMA OnwardCases ==
    ASSUME NEW f \in Trees, NEW last \in BOOLEAN, NEW leads \in Leading,
           NEW d \in Dirs, NEW p \in Paths
    PROVE  LET o == Onward(f, last, leads)[d][p]
               x == f.at[<<d, Head(p)>>]
               goes == last \/ Tail(p) # <<>>
           IN /\ p = <<>> => o = {}
              /\ p # <<>> /\ Head(p) = "/" => o = leads[Root][Tail(p)]
              /\ p # <<>> /\ Head(p) # "/" =>
                    /\ x \in Links /\ goes => o = leads[d][f.sym[x] \o Tail(p)]
                    /\ ~ (x \in Links /\ goes) /\ Tail(p) = <<>> => o = {<<d, Head(p)>>}
                    /\ ~ (x \in Links /\ goes) /\ Tail(p) # <<>> =>
                          o = IF x \in Dirs THEN leads[x][Tail(p)] ELSE {}
  BY DEF Onward

LEMMA OnwardTypes ==
    ASSUME NEW f \in Trees, NEW last \in BOOLEAN, NEW leads \in Leading
    PROVE  Onward(f, last, leads) \in Leading
  <1> SUFFICES ASSUME NEW d \in Dirs, NEW p \in Paths
               PROVE  Onward(f, last, leads)[d][p] \in SUBSET Places
    BY DEF Onward, Leading
  <1>1. CASE p = <<>>
    BY <1>1, OnwardCases
  <1>2. CASE p # <<>>
    <2>1. Head(p) \in Names \cup {"/"} /\ Tail(p) \in Paths
          /\ \A q \in Paths : q \o Tail(p) \in Paths
      BY <1>2, PathTypes
    <2>2. f.sym \in [Links -> Paths] /\ Root \in Dirs
      BY NodesAssumption DEF Trees
    <2>3. \A e \in Dirs, q \in Paths : leads[e][q] \in SUBSET Places
      BY DEF Leading
    <2> DEFINE x == f.at[<<d, Head(p)>>]
    <2> DEFINE goes == last \/ Tail(p) # <<>>
    <2> DEFINE o == Onward(f, last, leads)[d][p]
    <2>0. /\ Head(p) = "/" => o = leads[Root][Tail(p)]
          /\ Head(p) # "/" =>
                /\ x \in Links /\ goes => o = leads[d][f.sym[x] \o Tail(p)]
                /\ ~ (x \in Links /\ goes) /\ Tail(p) = <<>> => o = {<<d, Head(p)>>}
                /\ ~ (x \in Links /\ goes) /\ Tail(p) # <<>> =>
                      o = IF x \in Dirs THEN leads[x][Tail(p)] ELSE {}
      BY <1>2, OnwardCases
    <2> HIDE DEF o, x, goes
    <2>4. CASE Head(p) = "/"
      BY <2>0, <2>1, <2>2, <2>3, <2>4 DEF o
    <2>5. CASE Head(p) # "/" /\ x \in Links /\ goes
      <3>1. f.sym[x] \o Tail(p) \in Paths
        BY <2>1, <2>2, <2>5
      <3>2. o = leads[d][f.sym[x] \o Tail(p)]
        BY <2>0, <2>5
      <3> QED BY <2>3, <3>1, <3>2 DEF o
    <2>6. CASE Head(p) # "/" /\ ~ (x \in Links /\ goes) /\ Tail(p) = <<>>
      <3>1. o = {<<d, Head(p)>>}
        BY <2>0, <2>6
      <3>2. <<d, Head(p)>> \in Places
        BY <2>1, <2>6 DEF Places
      <3> QED BY <3>1, <3>2 DEF o
    <2>7. CASE Head(p) # "/" /\ ~ (x \in Links /\ goes) /\ Tail(p) # <<>>
      <3>1. o = IF x \in Dirs THEN leads[x][Tail(p)] ELSE {}
        BY <2>0, <2>7
      <3> QED BY <2>1, <2>3, <3>1 DEF o
    <2> QED BY <2>4, <2>5, <2>6, <2>7
  <1> QED BY <1>1, <1>2

LEMMA LeadsUnfold ==
    ASSUME NEW f \in Trees, NEW last \in BOOLEAN
    PROVE  /\ Leads(f, last) \in [Nat -> Leading]
           /\ Leads(f, last)[0] = [d \in Dirs |-> [p \in Paths |-> {}]]
           /\ \A k \in Nat : Leads(f, last)[k + 1] = Onward(f, last, Leads(f, last)[k])
  <1> DEFINE a == [d \in Dirs |-> [p \in Paths |-> {}]]
  <1> DEFINE G == [leads \in Leading |-> Onward(f, last, leads)]
  <1>1. a \in Leading /\ G \in [Leading -> Leading]
    BY OnwardTypes DEF Leading
  <1> DEFINE Is(g) == g = [k \in Nat |-> IF k = 0 THEN a ELSE Onward(f, last, g[k - 1])]
  <1>2. \E g : Is(g)
    <2> HIDE DEF a, G
    <2>1. PICK g \in [Nat -> Leading] : g[0] = a /\ \A k \in Nat : g[k + 1] = G[g[k]]
      BY <1>1, Iteration
    <2>2. ASSUME NEW k \in Nat
          PROVE  g[k] = IF k = 0 THEN a ELSE Onward(f, last, g[k - 1])
      <3>1. CASE k = 0
        BY <2>1, <3>1
      <3>2. CASE k # 0
        <4>1. k - 1 \in Nat /\ (k - 1) + 1 = k
          BY <3>2
        <4>2. g[k] = G[g[k - 1]] /\ g[k - 1] \in Leading
          BY <2>1, <4>1
        <4> QED BY <3>2, <4>2 DEF G
      <3> QED BY <3>1, <3>2
    <2> QED BY <2>1, <2>2
  <1> DEFINE L == CHOOSE g : Is(g)
  <1>3. Is(L)
    BY <1>2
  <1>4. Leads(f, last) = L
    BY DEF Leads
  <1> HIDE DEF L
  <1>5. /\ L[0] = a
        /\ \A k \in Nat : L[k + 1] = Onward(f, last, L[k])
    <2> HIDE DEF a
    <2>1. L[0] = a
      BY <1>3
    <2>2. ASSUME NEW k \in Nat PROVE L[k + 1] = Onward(f, last, L[k])
      <3>1. k + 1 \in Nat /\ k + 1 # 0 /\ (k + 1) - 1 = k
        OBVIOUS
      <3>2. L[k + 1] = IF k + 1 = 0 THEN a ELSE Onward(f, last, L[(k + 1) - 1])
        BY <1>3, <3>1
      <3> QED BY <3>1, <3>2
    <2> QED BY <2>1, <2>2
  <1>6. L \in [Nat -> Leading]
    <2> DEFINE N == {k \in Nat : L[k] \in Leading}
    <2>1. N = Nat
      <3>1. N \in SUBSET Nat /\ 0 \in N
        BY <1>1, <1>5
      <3>2. \A n \in N : n + 1 \in N
        BY <1>5, OnwardTypes
      <3> HIDE DEF N
      <3> QED BY <3>1, <3>2, Induction
    <2>2. L = [k \in Nat |-> L[k]]
      BY <1>3
    <2> QED BY <2>1, <2>2
  <1> QED BY <1>4, <1>5, <1>6

\* Lookups B go one step further than lookups A, by names at and links sym.
Further(at, sym, last, A, B) ==
    \A d \in Dirs, p \in Paths :
        B[d][p] =
            IF p = <<>> THEN {}
            ELSE IF Head(p) = "/" THEN A[Root][Tail(p)]
            ELSE IF at[<<d, Head(p)>>] \in Links /\ (last \/ Tail(p) # <<>>)
            THEN A[d][sym[at[<<d, Head(p)>>]] \o Tail(p)]
            ELSE IF Tail(p) = <<>> THEN {<<d, Head(p)>>}
            ELSE IF at[<<d, Head(p)>>] \in Dirs
            THEN A[at[<<d, Head(p)>>]][Tail(p)] ELSE {}

LEMMA PathParts ==
    ASSUME NEW p \in Paths, p # <<>>, NEW sym \in [Links -> Paths], NEW d \in Dirs
    PROVE  /\ Root \in Dirs /\ Tail(p) \in Paths
           /\ Head(p) # "/" => <<d, Head(p)>> \in Places
           /\ \A l \in Links : sym[l] \o Tail(p) \in Paths
  <1>1. /\ Head(p) \in Names \cup {"/"} /\ Tail(p) \in Paths
        /\ \A q \in Paths : q \o Tail(p) \in Paths
    BY PathTypes
  <1> QED BY <1>1, NodesAssumption DEF Places

LEMMA LeadsFurther ==
    ASSUME NEW f \in Trees, NEW last \in BOOLEAN, NEW k \in Nat
    PROVE  /\ Leads(f, last)[k] \in Leading /\ Leads(f, last)[k + 1] \in Leading
           /\ \A d \in Dirs, p \in Paths : Leads(f, last)[0][d][p] = {}
           /\ Further(f.at, f.sym, last, Leads(f, last)[k], Leads(f, last)[k + 1])
  <1> DEFINE L == Leads(f, last)
  <1>1. L \in [Nat -> Leading] /\ L[k + 1] = Onward(f, last, L[k])
        /\ L[0] = [d \in Dirs |-> [p \in Paths |-> {}]]
    BY LeadsUnfold
  <1> HIDE DEF L
  <1>2. \A A : Further(f.at, f.sym, last, A, Onward(f, last, A))
    BY DEF Further, Onward
  <1> QED BY <1>1, <1>2 DEF L

\* Lookups C lead to less than lookups A, or to the same.
Less(C, A) == \A d \in Dirs, p \in Paths : C[d][p] \subseteq A[d][p]
Alike(C, A) == \A d \in Dirs, p \in Paths : C[d][p] = A[d][p]

\* Lookups C, by names at, lead to where A lead, if there is no link.
Final(at, A, C) ==
    \A d \in Dirs, p \in Paths : \A x \in A[d][p] : at[x] \notin Links => C[d][p] = {x}

\* Names bt have no directories and links but those of at.
Fewer(at, bt) == \A x \in Places : bt[x] \in Dirs \cup Links => at[x] = bt[x]

\* Names bt are names at and new files.
MoreFiles(at, bt) ==
    \A x \in Places : at[x] # bt[x] => at[x] = Nothing /\ bt[x] \in Files

LEMMA PlaceTypes ==
    ASSUME NEW f \in Trees, NEW d \in Dirs, NEW p \in Paths, NEW last \in BOOLEAN
    PROVE  Place(f, d, p, last) \in SUBSET Places
  <1>1. Leads(f, last) \in [Nat -> Leading]
    BY LeadsUnfold
  <1> QED BY <1>1, LimitsAssumption DEF Place, Leading

LEMMA FewerStep ==
    ASSUME NEW at \in [Places -> Nodes \cup {Nothing}], NEW sym \in [Links -> Paths],
           NEW bt \in [Places -> Nodes \cup {Nothing}],
           NEW A, NEW B, NEW C, NEW D,
           Further(at, sym, FALSE, A, B), Further(bt, sym, FALSE, C, D),
           Fewer(at, bt), Less(C, A)
    PROVE  Less(D, B)
  <1> SUFFICES ASSUME NEW e \in Dirs, NEW q \in Paths PROVE D[e][q] \subseteq B[e][q]
    BY DEF Less
  <1>1. CASE q = <<>>
    BY <1>1 DEF Further
  <1>2. CASE q # <<>>
    <2>1. /\ Root \in Dirs /\ Tail(q) \in Paths
          /\ Head(q) # "/" => <<e, Head(q)>> \in Places
          /\ \A l \in Links : sym[l] \o Tail(q) \in Paths
      BY <1>2, PathParts
    <2> DEFINE x == at[<<e, Head(q)>>]
    <2> DEFINE y == bt[<<e, Head(q)>>]
    <2>2. /\ B[e][q] = IF Head(q) = "/" THEN A[Root][Tail(q)]
                    ELSE IF x \in Links /\ Tail(q) # <<>> THEN A[e][sym[x] \o Tail(q)]
                    ELSE IF Tail(q) = <<>> THEN {<<e, Head(q)>>}
                    ELSE IF x \in Dirs THEN A[x][Tail(q)] ELSE {}
          /\ D[e][q] = IF Head(q) = "/" THEN C[Root][Tail(q)]
                    ELSE IF y \in Links /\ Tail(q) # <<>> THEN C[e][sym[y] \o Tail(q)]
                    ELSE IF Tail(q) = <<>> THEN {<<e, Head(q)>>}
                    ELSE IF y \in Dirs THEN C[y][Tail(q)] ELSE {}
      BY <1>2, <2>1 DEF Further
    <2>3. Head(q) # "/" /\ y \in Dirs \cup Links => x = y
      BY <2>1 DEF Fewer
    <2> HIDE DEF x, y
    <2> QED BY <2>1, <2>2, <2>3, NodesAssumption DEF Less
  <1> QED BY <1>1, <1>2

\* With only names of files and free names added or taken away, a name that is
\* still looked up is where it was.
LEMMA FewerPlaces ==
    ASSUME NEW f \in Trees, NEW g \in Trees, g.sym = f.sym,
           Fewer(f.at, g.at),
           NEW d \in Dirs, NEW p \in Paths
    PROVE  Place(g, d, p, FALSE) \subseteq Place(f, d, p, FALSE)
  <1> DEFINE N == {k \in Nat : Less(Leads(g, FALSE)[k], Leads(f, FALSE)[k])}
  <1>1. 0 \in N
    BY LeadsFurther DEF Less
  <1>2. ASSUME NEW k \in N PROVE k + 1 \in N
    <2> DEFINE A == Leads(f, FALSE)[k]
    <2> DEFINE B == Leads(f, FALSE)[k + 1]
    <2> DEFINE C == Leads(g, FALSE)[k]
    <2> DEFINE D == Leads(g, FALSE)[k + 1]
    <2>1. /\ f.at \in [Places -> Nodes \cup {Nothing}] /\ f.sym \in [Links -> Paths]
          /\ g.at \in [Places -> Nodes \cup {Nothing}]
      BY DEF Trees
    <2>2. Further(f.at, f.sym, FALSE, A, B) /\ Further(g.at, f.sym, FALSE, C, D)
      BY LeadsFurther
    <2>3. Less(C, A)
      OBVIOUS
    <2> HIDE DEF A, B, C, D
    <2>4. Less(D, B)
      BY <2>1, <2>2, <2>3, FewerStep
    <2>5. k + 1 \in Nat
      OBVIOUS
    <2> QED BY <2>4, <2>5 DEF A, B, C, D
  <1>3. N = Nat
    <2>1. N \in SUBSET Nat
      OBVIOUS
    <2> HIDE DEF N
    <2> QED BY <1>1, <1>2, <2>1, Induction
  <1>4. Steps \in N
    BY <1>3, LimitsAssumption
  <1> QED BY <1>4 DEF Place, Less

LEMMA SameStep ==
    ASSUME NEW at \in [Places -> Nodes \cup {Nothing}], NEW sym \in [Links -> Paths],
           NEW bt \in [Places -> Nodes \cup {Nothing}],
           NEW A, NEW B, NEW C, NEW D,
           Further(at, sym, TRUE, A, B), Further(bt, sym, TRUE, C, D),
           MoreFiles(at, bt), Alike(C, A)
    PROVE  Alike(D, B)
  <1> SUFFICES ASSUME NEW e \in Dirs, NEW q \in Paths PROVE D[e][q] = B[e][q]
    BY DEF Alike
  <1>1. CASE q = <<>>
    BY <1>1 DEF Further
  <1>2. CASE q # <<>>
    <2>1. /\ Root \in Dirs /\ Tail(q) \in Paths
          /\ Head(q) # "/" => <<e, Head(q)>> \in Places
          /\ \A l \in Links : sym[l] \o Tail(q) \in Paths
      BY <1>2, PathParts
    <2> DEFINE x == at[<<e, Head(q)>>]
    <2> DEFINE y == bt[<<e, Head(q)>>]
    <2>2. /\ B[e][q] = IF Head(q) = "/" THEN A[Root][Tail(q)]
                    ELSE IF x \in Links THEN A[e][sym[x] \o Tail(q)]
                    ELSE IF Tail(q) = <<>> THEN {<<e, Head(q)>>}
                    ELSE IF x \in Dirs THEN A[x][Tail(q)] ELSE {}
          /\ D[e][q] = IF Head(q) = "/" THEN C[Root][Tail(q)]
                    ELSE IF y \in Links THEN C[e][sym[y] \o Tail(q)]
                    ELSE IF Tail(q) = <<>> THEN {<<e, Head(q)>>}
                    ELSE IF y \in Dirs THEN C[y][Tail(q)] ELSE {}
      BY <1>2, <2>1 DEF Further
    <2>3. Head(q) # "/" /\ x # y => x \notin Dirs \cup Links /\ y \notin Dirs \cup Links
      BY <2>1, NodesAssumption DEF Nodes, MoreFiles
    <2> HIDE DEF x, y
    <2>4. CASE Head(q) # "/" /\ x # y
      BY <2>2, <2>3, <2>4
    <2>5. CASE Head(q) = "/" \/ x = y
      BY <2>1, <2>2, <2>5 DEF Alike
    <2> QED BY <2>4, <2>5
  <1> QED BY <1>1, <1>2

\* New files change no lookup that follows the last link.
LEMMA SamePlaces ==
    ASSUME NEW f \in Trees, NEW g \in Trees, g.sym = f.sym,
           MoreFiles(f.at, g.at),
           NEW d \in Dirs, NEW p \in Paths
    PROVE  Place(g, d, p, TRUE) = Place(f, d, p, TRUE)
  <1> DEFINE N == {k \in Nat : Alike(Leads(g, TRUE)[k], Leads(f, TRUE)[k])}
  <1>1. 0 \in N
    BY LeadsFurther DEF Alike
  <1>2. ASSUME NEW k \in N PROVE k + 1 \in N
    <2> DEFINE A == Leads(f, TRUE)[k]
    <2> DEFINE B == Leads(f, TRUE)[k + 1]
    <2> DEFINE C == Leads(g, TRUE)[k]
    <2> DEFINE D == Leads(g, TRUE)[k + 1]
    <2>1. /\ f.at \in [Places -> Nodes \cup {Nothing}] /\ f.sym \in [Links -> Paths]
          /\ g.at \in [Places -> Nodes \cup {Nothing}]
      BY DEF Trees
    <2>2. Further(f.at, f.sym, TRUE, A, B) /\ Further(g.at, f.sym, TRUE, C, D)
      BY LeadsFurther
    <2>3. Alike(C, A)
      OBVIOUS
    <2> HIDE DEF A, B, C, D
    <2>4. Alike(D, B)
      BY <2>1, <2>2, <2>3, SameStep
    <2>5. k + 1 \in Nat
      OBVIOUS
    <2> QED BY <2>4, <2>5 DEF A, B, C, D
  <1>3. N = Nat
    <2>1. N \in SUBSET Nat
      OBVIOUS
    <2> HIDE DEF N
    <2> QED BY <1>1, <1>2, <2>1, Induction
  <1>4. Steps \in N
    BY <1>3, LimitsAssumption
  <1> QED BY <1>4 DEF Place, Alike

LEMMA OneStep ==
    ASSUME NEW at \in [Places -> Nodes \cup {Nothing}], NEW sym \in [Links -> Paths],
           NEW last \in BOOLEAN, NEW A, NEW B, Further(at, sym, last, A, B),
           \A d \in Dirs, p \in Paths : \A x, y \in A[d][p] : x = y,
           NEW e \in Dirs, NEW q \in Paths, NEW x \in B[e][q], NEW y \in B[e][q]
    PROVE  x = y
  <1>1. CASE q = <<>>
    BY <1>1 DEF Further
  <1>2. CASE q # <<>>
    <2>1. /\ Root \in Dirs /\ Tail(q) \in Paths
          /\ Head(q) # "/" => <<e, Head(q)>> \in Places
          /\ \A l \in Links : sym[l] \o Tail(q) \in Paths
      BY <1>2, PathParts
    <2> DEFINE n == at[<<e, Head(q)>>]
    <2>2. B[e][q] = IF Head(q) = "/" THEN A[Root][Tail(q)]
                    ELSE IF n \in Links /\ (last \/ Tail(q) # <<>>)
                    THEN A[e][sym[n] \o Tail(q)]
                    ELSE IF Tail(q) = <<>> THEN {<<e, Head(q)>>}
                    ELSE IF n \in Dirs THEN A[n][Tail(q)] ELSE {}
      BY <1>2, <2>1 DEF Further
    <2> HIDE DEF n
    <2> QED BY <2>1, <2>2
  <1> QED BY <1>1, <1>2

\* A path leads to one place at most.
LEMMA OnePlace ==
    ASSUME NEW f \in Trees, NEW d \in Dirs, NEW p \in Paths, NEW last \in BOOLEAN,
           NEW x \in Place(f, d, p, last), NEW y \in Place(f, d, p, last)
    PROVE  x = y
  <1> DEFINE N == {k \in Nat : \A e \in Dirs, q \in Paths :
                      \A u, v \in Leads(f, last)[k][e][q] : u = v}
  <1>1. 0 \in N
    BY LeadsFurther
  <1>2. ASSUME NEW k \in N PROVE k + 1 \in N
    <2>1. f.at \in [Places -> Nodes \cup {Nothing}] /\ f.sym \in [Links -> Paths]
      BY DEF Trees
    <2>2. Further(f.at, f.sym, last, Leads(f, last)[k], Leads(f, last)[k + 1])
      BY LeadsFurther
    <2> QED BY <2>1, <2>2, OneStep
  <1>3. N = Nat
    <2>1. N \in SUBSET Nat
      OBVIOUS
    <2> HIDE DEF N
    <2> QED BY <1>1, <1>2, <2>1, Induction
  <1>4. Steps \in N
    BY <1>3, LimitsAssumption
  <1> QED BY <1>4 DEF Place

LEMMA FinalStep ==
    ASSUME NEW at \in [Places -> Nodes \cup {Nothing}], NEW sym \in [Links -> Paths],
           NEW A, NEW B, NEW C, NEW D,
           Further(at, sym, FALSE, A, B), Further(at, sym, TRUE, C, D),
           Final(at, A, C)
    PROVE  Final(at, B, D)
  <1> SUFFICES ASSUME NEW e \in Dirs, NEW q \in Paths, NEW x \in B[e][q], at[x] \notin Links
               PROVE  D[e][q] = {x}
    BY DEF Final
  <1>1. CASE q = <<>>
    BY <1>1 DEF Further
  <1>2. CASE q # <<>>
    <2>1. /\ Root \in Dirs /\ Tail(q) \in Paths
          /\ Head(q) # "/" => <<e, Head(q)>> \in Places
          /\ \A l \in Links : sym[l] \o Tail(q) \in Paths
      BY <1>2, PathParts
    <2> DEFINE n == at[<<e, Head(q)>>]
    <2>2. /\ B[e][q] = IF Head(q) = "/" THEN A[Root][Tail(q)]
                    ELSE IF n \in Links /\ Tail(q) # <<>> THEN A[e][sym[n] \o Tail(q)]
                    ELSE IF Tail(q) = <<>> THEN {<<e, Head(q)>>}
                    ELSE IF n \in Dirs THEN A[n][Tail(q)] ELSE {}
          /\ D[e][q] = IF Head(q) = "/" THEN C[Root][Tail(q)]
                    ELSE IF n \in Links THEN C[e][sym[n] \o Tail(q)]
                    ELSE IF Tail(q) = <<>> THEN {<<e, Head(q)>>}
                    ELSE IF n \in Dirs THEN C[n][Tail(q)] ELSE {}
      BY <1>2, <2>1 DEF Further
    <2>3. CASE Head(q) # "/" /\ Tail(q) = <<>>
      BY <2>2, <2>3
    <2> HIDE DEF n
    <2>4. CASE ~ (Head(q) # "/" /\ Tail(q) = <<>>)
      BY <2>1, <2>2, <2>4, SMTT(30) DEF Final
    <2> QED BY <2>3, <2>4
  <1> QED BY <1>1, <1>2

\* Where there is no link at the end, it does not matter if that is followed.
LEMMA FinalPlace ==
    ASSUME NEW f \in Trees, NEW d \in Dirs, NEW p \in Paths,
           NEW x \in Place(f, d, p, FALSE), f.at[x] \notin Links
    PROVE  Place(f, d, p, TRUE) = {x}
  <1> DEFINE N == {k \in Nat : Final(f.at, Leads(f, FALSE)[k], Leads(f, TRUE)[k])}
  <1>1. 0 \in N
    BY LeadsFurther DEF Final
  <1>2. ASSUME NEW k \in N PROVE k + 1 \in N
    <2> DEFINE A == Leads(f, FALSE)[k]
    <2> DEFINE B == Leads(f, FALSE)[k + 1]
    <2> DEFINE C == Leads(f, TRUE)[k]
    <2> DEFINE D == Leads(f, TRUE)[k + 1]
    <2>1. f.at \in [Places -> Nodes \cup {Nothing}] /\ f.sym \in [Links -> Paths]
      BY DEF Trees
    <2>2. Further(f.at, f.sym, FALSE, A, B) /\ Further(f.at, f.sym, TRUE, C, D)
      BY LeadsFurther
    <2>3. Final(f.at, A, C)
      OBVIOUS
    <2> HIDE DEF A, B, C, D
    <2>4. Final(f.at, B, D)
      BY <2>1, <2>2, <2>3, FinalStep
    <2>5. k + 1 \in Nat
      OBVIOUS
    <2> QED BY <2>4, <2>5 DEF A, B, C, D
  <1>3. N = Nat
    <2>1. N \in SUBSET Nat
      OBVIOUS
    <2> HIDE DEF N
    <2> QED BY <1>1, <1>2, <2>1, Induction
  <1>4. Steps \in N
    BY <1>3, LimitsAssumption
  <1> QED BY <1>4 DEF Place, Final

\* The first step of a lookup.
LEMMA PlaceFurther ==
    ASSUME NEW f \in Trees, NEW last \in BOOLEAN
    PROVE  \E A \in Leading : \E B \in Leading :
              /\ Further(f.at, f.sym, last, A, B)
              /\ \A d \in Dirs, p \in Paths : Place(f, d, p, last) = B[d][p]
  <1>1. Steps - 1 \in Nat /\ (Steps - 1) + 1 = Steps
    BY LimitsAssumption
  <1> QED BY <1>1, LeadsFurther DEF Place

LEMMA RootedPlace ==
    ASSUME NEW f \in Trees, NEW d \in Dirs, NEW e \in Dirs, NEW p \in Paths,
           p # <<>>, Head(p) = "/", NEW last \in BOOLEAN
    PROVE  Place(f, d, p, last) = Place(f, e, p, last)
  <1>1. PICK A \in Leading, B \in Leading :
              /\ Further(f.at, f.sym, last, A, B)
              /\ \A c \in Dirs, q \in Paths : Place(f, c, q, last) = B[c][q]
    BY PlaceFurther
  <1>2. B[d][p] = A[Root][Tail(p)] /\ B[e][p] = A[Root][Tail(p)]
    BY <1>1 DEF Further
  <1> QED BY <1>1, <1>2

LEMMA ShortPlace ==
    ASSUME NEW f \in Trees, NEW d \in Dirs, NEW n \in Names,
           f.at[<<d, n>>] \notin Links
    PROVE  <<n>> \in Paths /\ Place(f, d, <<n>>, TRUE) = {<<d, n>>}
  <1>1. <<n>> \in Paths /\ <<n>> # <<>> /\ Head(<<n>>) = n /\ Tail(<<n>>) = <<>>
    BY DEF Paths
  <1>2. n # "/"
    BY NodesAssumption
  <1>3. PICK A \in Leading, B \in Leading :
              /\ Further(f.at, f.sym, TRUE, A, B)
              /\ \A c \in Dirs, q \in Paths : Place(f, c, q, TRUE) = B[c][q]
    BY PlaceFurther
  <1> DEFINE p == <<n>>
  <1>4. p \in Paths /\ p # <<>> /\ Head(p) = n /\ Tail(p) = <<>>
    BY <1>1
  <1> HIDE DEF p
  <1>5. B[d][p] = {<<d, Head(p)>>}
    BY <1>2, <1>3, <1>4 DEF Further
  <1> QED BY <1>3, <1>4, <1>5 DEF p
-----------------------------------------------------------------------------
(* Types *)

Commands == [tool : {"cp", "mv", "ln", "mkdir"}, argv : Seq(Paths)]
Frames == [dir : Dirs, seen : SUBSET Names, must : SUBSET Names]

Typed ==
    /\ TypeOK
    /\ script \in Seq(Commands) /\ argv \in Seq(Paths)
    /\ from \in Paths /\ to \in Paths
    /\ before \in Trees
    /\ stack \in Seq(Frames)
    /\ unread \subseteq Nodes

Copying == {"fopen", "trunc", "copy"}
Walking == {"enter", "loop", "back"}

\* What is known of the command where it stands.
Labelled ==
    /\ pc \in Copying \cup Walking => tool = "cp"
    /\ pc \in Walking \/ (pc \in Copying /\ argc # 3) =>
          argc > 3 /\ arg \in First..(Len(argv) - 1)
    /\ pc = "operand" => tool # "ln"
    /\ pc = "operand" /\ tool # "mkdir" => argc > 3 /\ arg \in First..Len(argv)
    /\ pc \in {"main", "operand"} => stack = <<>>
    /\ pc = "loop" => stack # <<>>
    /\ pc = "main" => fs = before /\ cwd = Start
    /\ stack # <<>> => argc > 3

\* A directory has one name.
OneName(f) ==
    \A x, y \in Places : f.at[x] \in Dirs /\ f.at[x] = f.at[y] => x = y

TInv == Typed /\ Labelled /\ OneName(fs) /\ OneName(before)

LEMMA TreeFields ==
    ASSUME NEW f \in Trees
    PROVE  /\ f.at \in [Places -> Nodes \cup {Nothing}]
           /\ f.text \in [Files -> Texts] /\ f.sym \in [Links -> Paths]
  BY DEF Trees

LEMMA TreeUpdates ==
    ASSUME NEW f \in Trees, NEW x \in Places, NEW n \in Nodes \cup {Nothing}
    PROVE  /\ [f EXCEPT !.at[x] = n] \in Trees
           /\ \A l, t : t \in Texts => [f EXCEPT !.at[x] = n, !.text[l] = t] \in Trees
           /\ \A l, p : p \in Paths => [f EXCEPT !.at[x] = n, !.sym[l] = p] \in Trees
           /\ \A y \in Places : [f EXCEPT !.at[y] = n, !.at[x] = Nothing] \in Trees
  BY DEF Trees

LEMMA TextUpdates ==
    ASSUME NEW f \in Trees, NEW l, NEW t \in Texts
    PROVE  [f EXCEPT !.text[l] = t] \in Trees
  BY DEF Trees

LEMMA LookupTypes ==
    ASSUME Typed, NEW p \in Paths
    PROVE  /\ Goal(p) \subseteq Places /\ Name(p) \subseteq Places
           /\ Free(p) \subseteq Places /\ Found(p) \subseteq Nodes
           /\ Stat(p) \subseteq Kinds
  <1>1. Goal(p) \subseteq Places /\ Name(p) \subseteq Places
    BY PlaceTypes DEF Typed, TypeOK, Goal, Name
  <1>2. fs.at \in [Places -> Nodes \cup {Nothing}]
    BY TreeFields DEF Typed, TypeOK
  <1>3. Found(p) \subseteq Nodes
    BY <1>1, <1>2 DEF Found, NodesAt
  <1>4. st \in Kinds
    BY DEF Typed, TypeOK
  <1> QED BY <1>1, <1>3, <1>4 DEF Free, Stat, Kinds, KindOf

LEMMA JoinTypes ==
    ASSUME NEW d \in Paths, NEW p \in Paths
    PROVE  Join(d, p) \in Paths
  <1>1. CASE p # <<>>
    <2>1. Tail(p) \in Paths
      BY <1>1, PathTypes
    <2> QED BY <2>1 DEF Join, Paths
  <1>2. CASE p = <<>>
    BY <1>2 DEF Join, Paths
  <1> QED BY <1>1, <1>2

LEMMA ArgvTypes ==
    ASSUME argv \in Seq(Paths)
    PROVE  /\ Len(argv) \in Nat /\ argc \in Nat
           /\ \A k \in 1..Len(argv) : argv[k] \in Paths
           /\ argv # <<>> => Len(argv) > 0 /\ Last \in Paths
           /\ First \in 1..2 /\ (\A o : Option(o) => Len(argv) > 0)
  <1>1. Len(argv) \in Nat /\ \A k \in 1..Len(argv) : argv[k] \in Paths
    OBVIOUS
  <1>2. argv # <<>> => Len(argv) > 0
    BY EmptySeq
  <1> QED BY <1>1, <1>2 DEF argc, Last, First, Option

LEMMA MadeNew ==
    ASSUME NEW S, Spare(S) # {}
    PROVE  Made(S) \in S /\ Made(S) # Root /\ ~ InTree(Made(S))
  BY DEF Made, Spare

LEMMA StackTypes ==
    ASSUME NEW s \in Seq(Frames)
    PROVE  /\ \A k \in DOMAIN s :
                s[k].dir \in Dirs /\ s[k].seen \cup s[k].must \subseteq Names
           /\ s # <<>> => Head(s) \in Frames /\ Tail(s) \in Seq(Frames)
           /\ \A f \in Frames : <<f>> \o s \in Seq(Frames)
  <1>1. \A k \in DOMAIN s : s[k] \in Frames
    OBVIOUS
  <1>2. \A f \in Frames : <<f>> \in Seq(Frames)
    OBVIOUS
  <1>3. ASSUME NEW f \in Frames PROVE <<f>> \o s \in Seq(Frames)
    <2> DEFINE t == <<f>>
    <2>1. t \in Seq(Frames)
      BY <1>2
    <2> HIDE DEF t
    <2>2. t \o s \in Seq(Frames)
      BY <2>1, ConcatProperties
    <2> QED BY <2>2 DEF t
  <1>4. s # <<>> => Head(s) \in Frames /\ Tail(s) \in Seq(Frames)
    OBVIOUS
  <1>5. \A k \in DOMAIN s :
           s[k].dir \in Dirs /\ s[k].seen \cup s[k].must \subseteq Names
    BY <1>1 DEF Frames
  <1> QED BY <1>3, <1>4, <1>5

\* A frame more.
LEMMA PushShape ==
    ASSUME NEW S, NEW s \in Seq(S), NEW f \in S
    PROVE  /\ <<f>> \o s # <<>> /\ Len(<<f>> \o s) = Len(s) + 1
           /\ (<<f>> \o s)[1] = f
           /\ \A k \in 1..Len(s) : (<<f>> \o s)[k + 1] = s[k]
  <1> DEFINE t == <<f>>
  <1>1. t \in Seq(S) /\ Len(t) = 1 /\ t[1] = f
    OBVIOUS
  <1> HIDE DEF t
  <1>2. Len(s) \in Nat
    OBVIOUS
  <1>3. /\ t \o s \in Seq(S) /\ Len(t \o s) = Len(s) + 1
        /\ (t \o s)[1] = f
        /\ \A k \in 1..Len(s) : (t \o s)[k + 1] = s[k]
    BY <1>1, <1>2, ConcatProperties, SMTT(30)
  <1>4. t \o s # <<>>
    BY <1>2, <1>3, EmptySeq
  <1> QED BY <1>3, <1>4 DEF t

\* A frame less.
LEMMA PopShape ==
    ASSUME NEW S, NEW s \in Seq(S), s # <<>>
    PROVE  /\ Head(s) = s[1] /\ Tail(s) \in Seq(S) /\ Len(Tail(s)) = Len(s) - 1
           /\ Len(s) = 1 <=> Tail(s) = <<>>
           /\ \A k \in 1..Len(Tail(s)) : Tail(s)[k] = s[k + 1]
  <1>1. /\ Head(s) = s[1] /\ Tail(s) \in Seq(S) /\ Len(Tail(s)) = Len(s) - 1
        /\ \A k \in 1..Len(Tail(s)) : Tail(s)[k] = s[k + 1]
    BY HeadTailProperties
  <1>2. Tail(s) = <<>> => Len(Tail(s)) = 0
    BY EmptySeq
  <1>3. Tail(s) # <<>> => Len(Tail(s)) # 0
    BY <1>1, EmptySeq
  <1>4. Len(s) \in Nat
    OBVIOUS
  <1>5. \A m \in Nat : m - 1 = 0 <=> m = 1
    OBVIOUS
  <1> QED BY <1>1, <1>2, <1>3, <1>4, <1>5

LEMMA TypedInit == Init => Typed /\ Labelled
  <1> SUFFICES ASSUME Init PROVE Typed /\ Labelled
    OBVIOUS
  <1>1. Commands = [tool : {"cp", "mv", "ln", "mkdir"}, argv : Seq(Paths)]
    BY DEF Commands
  <1>2. script \in Seq(Commands)
    BY <1>1, ScriptsAssumption DEF Init
  <1>3. <<>> \in Paths /\ <<>> \in Seq(Paths) /\ <<>> \in Seq(Frames) /\ Len(<<>>) = 0
    BY EmptySeq DEF Paths
  <1>4. Start \in Dirs /\ 0 \in 0..OpenMax
    BY NodesAssumption, LimitsAssumption
  <1>5. unread \subseteq Nodes
    BY NodesAssumption DEF Init
  <1>6. TypeOK
    BY <1>3, <1>4, TreeAssumption DEF Init, TypeOK, Tools, Labels, Kinds
  <1>7. Typed
    BY <1>2, <1>3, <1>5, <1>6, TreeAssumption DEF Init, Typed
  <1> QED BY <1>7 DEF Init, Labelled, Copying, Walking

\* What changes the tree makes a tree of it again.
LEMMA RenameTypes ==
    ASSUME Typed, NEW p \in Paths, NEW q \in Paths, NEW next, Rename(p, q, next)
    PROVE  fs' \in Trees /\ pc' \in {next, "failed"}
  <1> DEFINE X == Name(p)
  <1> DEFINE Y == Name(q)
  <1>1. X \subseteq Places /\ Y \subseteq Places
    BY LookupTypes
  <1>2. fs \in Trees
    BY DEF Typed, TypeOK
  <1>3. CASE /\ \E x \in X, y \in Y :
                   fs' = IF fs.at[x] = fs.at[y] THEN fs
                         ELSE [fs EXCEPT !.at[y] = fs.at[x], !.at[x] = Nothing]
             /\ pc' = next
    <2> HIDE DEF X, Y
    <2>1. PICK x \in X, y \in Y :
                   fs' = IF fs.at[x] = fs.at[y] THEN fs
                         ELSE [fs EXCEPT !.at[y] = fs.at[x], !.at[x] = Nothing]
      BY <1>3
    <2>2. x \in Places /\ y \in Places
      BY <1>1
    <2>3. fs.at[x] \in Nodes \cup {Nothing}
      BY <1>2, <2>2, TreeFields
    <2>4. [fs EXCEPT !.at[y] = fs.at[x], !.at[x] = Nothing] \in Trees
      BY <1>2, <2>2, <2>3, TreeUpdates
    <2> QED BY <1>2, <1>3, <2>1, <2>4
  <1>4. CASE pc' = "failed" /\ UNCHANGED fs
    BY <1>2, <1>4
  <1> QED BY <1>3, <1>4 DEF Rename

LEMMA TypedStep ==
    ASSUME Typed, Labelled, Next
    PROVE  Typed'
  <1> USE DEF Typed, TypeOK, given, command
  <1>0. /\ Len(argv) \in Nat /\ argc \in Nat
        /\ \A k \in 1..Len(argv) : argv[k] \in Paths
        /\ argv # <<>> => Len(argv) > 0 /\ Last \in Paths
        /\ First \in 1..2 /\ (\A o : Option(o) => Len(argv) > 0)
        /\ argc = Len(argv) + 1
    BY ArgvTypes DEF argc
  <1>1. CASE Run
    <2>1. Head(script) \in Commands /\ Tail(script) \in Seq(Commands)
      BY <1>1 DEF Run
    <2>2. tool' \in Tools /\ argv' \in Seq(Paths)
      BY <1>1, <2>1 DEF Run, Commands, Tools
    <2>3. 1 \in 1..(Len(argv') + 1) /\ <<>> \in Paths /\ <<>> \in Seq(Frames)
      BY <2>2, EmptySeq DEF Paths
    <2>4. Start \in Dirs /\ 0 \in 0..OpenMax
      BY NodesAssumption, LimitsAssumption
    <2> QED BY <1>1, <2>1, <2>2, <2>3, <2>4 DEF Run, Labels, Kinds
  <1>2. CASE Usage
    BY <1>2 DEF Usage, End, Labels
  <1>3. CASE CpFiles
    <2>1. argv[1] \in Paths /\ argv[2] \in Paths
      BY <1>0, <1>3 DEF CpFiles
    <2> QED BY <1>3, <2>1 DEF CpFiles, Labels
  <1>4. CASE Target
    <2>1. Stat(Last) \subseteq Kinds /\ First \in 1..(Len(argv) + 1)
      BY <1>0, <1>4, LookupTypes, EmptySeq DEF Target
    <2>2. st' \in Kinds /\ pc' \in Labels /\ arg' \in 1..(Len(argv) + 1)
      BY <1>4, <2>1 DEF Target, Labels
    <2> QED BY <1>4, <2>2 DEF Target
  <1>5. CASE CpOperand
    <2>1. argv[arg] \in Paths /\ Last \in Paths
      BY <1>0, <1>5, EmptySeq DEF CpOperand
    <2>2. Stat(argv[arg]) \subseteq Kinds /\ Join(Last, argv[arg]) \in Paths
      BY <2>1, LookupTypes, JoinTypes
    <2>3. st' \in Kinds /\ pc' \in Labels /\ from' \in Paths /\ to' \in Paths
      BY <1>5, <2>1, <2>2 DEF CpOperand, Labels
    <2> QED BY <1>5, <2>3 DEF CpOperand
  <1>6. CASE Finished
    BY <1>6 DEF Finished, End, Labels
  <1>7. CASE Open
    BY <1>7, LookupTypes DEF Open, Labels
  <1>8. CASE Truncate
    <2>1. PICK x \in Goal(to) :
             \/ fs' = [fs EXCEPT !.text[fs.at[x]] = Empty]
             \/ /\ Spare(Files) # {}
                /\ fs' = [fs EXCEPT !.at[x] = Made(Files), !.text[Made(Files)] = Empty]
      BY <1>8 DEF Truncate
    <2>2. x \in Places /\ Empty \in Texts
      BY LookupTypes DEF Texts
    <2>3. Spare(Files) # {} => Made(Files) \in Nodes
      BY MadeNew DEF Nodes
    <2>4. [fs EXCEPT !.text[fs.at[x]] = Empty] \in Trees
      BY <2>2, TextUpdates
    <2>5. Spare(Files) # {} =>
             [fs EXCEPT !.at[x] = Made(Files), !.text[Made(Files)] = Empty] \in Trees
      BY <2>2, <2>3, TreeUpdates
    <2>6. fs' \in Trees
      BY <2>1, <2>4, <2>5
    <2> QED BY <1>8, <2>6 DEF Truncate, Labels
  <1>9. CASE TruncateFails
    BY <1>9 DEF TruncateFails, End, Labels
  <1>10. CASE Copy
    <2>1. PICK x \in Goal(to) : \E t \in Arrives(fs.at[x]) :
             fs' = [fs EXCEPT !.text[fs.at[x]] = t]
      BY <1>10 DEF Copy
    <2>2. Arrives(fs.at[x]) \subseteq Texts
      BY TreeFields DEF Arrives, Texts
    <2>3. fs' \in Trees
      <3>1. PICK t \in Texts : fs' = [fs EXCEPT !.text[fs.at[x]] = t]
        BY <2>1, <2>2
      <3> QED BY <3>1, TextUpdates
    <2>4. arg' \in 1..(Len(argv) + 1)
      <3>1. CASE UNCHANGED arg
        BY <1>10, <3>1 DEF Copy
      <3>2. CASE arg' = arg + 1 /\ argc # 3
        BY <1>0, <1>10, <3>2 DEF Copy, Labelled, Copying
      <3> QED BY <1>10, <3>1, <3>2 DEF Copy
    <2> QED BY <1>10, <2>3, <2>4 DEF Copy, Labels
  <1>11. CASE EnterFails
    BY <1>11 DEF EnterFails, End, Labels
  <1>12. CASE Enter
    <2>1. PICK d \in Found(from) :
             /\ CanOpen(d)
             /\ stack' = <<[dir |-> d, seen |-> {}, must |-> Entries(d)]>> \o stack
             /\ cwd' = IF d \in barred THEN cwd ELSE d
      BY <1>12 DEF Enter
    <2>2. d \in Dirs /\ opened < OpenMax /\ Entries(d) \subseteq Names
      BY <2>1 DEF CanOpen, Entries
    <2>3. [dir |-> d, seen |-> {}, must |-> Entries(d)] \in Frames
      BY <2>2 DEF Frames
    <2>4. stack' \in Seq(Frames)
      BY <2>1, <2>3, StackTypes
    <2>5. opened' \in 0..OpenMax
      BY <1>12, <2>2, LimitsAssumption DEF Enter
    <2>6. cwd' \in Dirs
      BY <2>1, <2>2
    <2>7. \A k \in DOMAIN stack' :
             stack'[k].dir \in Dirs /\ stack'[k].seen \cup stack'[k].must \subseteq Names
      BY <2>4, StackTypes
    <2> QED BY <1>12, <2>4, <2>5, <2>6, <2>7 DEF Enter, Labels
  <1>13. ASSUME NEW n \in Names, Read(n) PROVE Typed'
    <2>1. Frame \in Frames /\ Tail(stack) \in Seq(Frames)
      BY <1>13, StackTypes DEF Read, Labelled, Frame
    <2>2. [Frame EXCEPT !.seen = @ \cup {n}] \in Frames
      BY <2>1 DEF Frames
    <2>3. stack' \in Seq(Frames)
      BY <1>13, <2>1, <2>2, StackTypes DEF Read
    <2>4. <<n>> \in Paths
      BY DEF Paths
    <2>5. Last \in Paths
      <3>1. argc > 3
        BY <1>13 DEF Read, Labelled, Walking
      <3>2. argv # <<>>
        BY <1>0, <3>1, EmptySeq
      <3> QED BY <1>0, <3>2
    <2>6. Join(Last, <<n>>) \in Paths
      BY <2>4, <2>5, JoinTypes
    <2>7. from' \in Paths /\ to' \in Paths /\ pc' \in Labels
      BY <1>13, <2>4, <2>6 DEF Read, Labels
    <2>8. \A k \in DOMAIN stack' :
             stack'[k].dir \in Dirs /\ stack'[k].seen \cup stack'[k].must \subseteq Names
      BY <2>3, StackTypes
    <2> QED BY <1>13, <2>3, <2>7, <2>8 DEF Read
  <1>14. CASE Leave
    <2>1. cwd' \in Dirs
      BY <1>14 DEF Leave, Parent
    <2>2. stack' \in Seq(Frames)
      BY <1>14, StackTypes DEF Leave, Labelled
    <2>3. \A k \in DOMAIN stack' :
             stack'[k].dir \in Dirs /\ stack'[k].seen \cup stack'[k].must \subseteq Names
      BY <2>2, StackTypes
    <2>4. arg' \in 1..(Len(argv) + 1) /\ pc' \in Labels
      BY <1>0, <1>14 DEF Leave, Labelled, Walking, Labels
    <2> QED BY <1>14, <2>1, <2>2, <2>3, <2>4 DEF Leave
  <1>15. CASE Back
    <2>1. stack' \in Seq(Frames)
      BY <1>15, StackTypes DEF Back
    <2>2. \A k \in DOMAIN stack' :
             stack'[k].dir \in Dirs /\ stack'[k].seen \cup stack'[k].must \subseteq Names
      BY <2>1, StackTypes
    <2>3. arg' \in 1..(Len(argv) + 1) /\ pc' \in Labels
      BY <1>0, <1>15 DEF Back, Labelled, Walking, Labels
    <2> QED BY <1>15, <2>1, <2>2, <2>3 DEF Back
  <1>16. CASE MvFiles
    <2>1. argv[1] \in Paths /\ argv[2] \in Paths
      BY <1>0, <1>16 DEF MvFiles
    <2>2. fs' \in Trees /\ pc' \in {"ok", "failed"}
      BY <1>16, <2>1, RenameTypes DEF MvFiles
    <2> QED BY <1>16, <2>2 DEF MvFiles, Labels
  <1>17. CASE MvOperand
    <2>1. argv[arg] \in Paths /\ Last \in Paths
      BY <1>0, <1>17, EmptySeq DEF MvOperand
    <2>2. Stat(argv[arg]) \subseteq Kinds /\ Join(Last, argv[arg]) \in Paths
      BY <2>1, LookupTypes, JoinTypes
    <2>3. fs' \in Trees /\ pc' \in {"operand", "failed"}
      BY <1>17, <2>1, <2>2, RenameTypes DEF MvOperand
    <2>4. arg' \in 1..(Len(argv) + 1)
      BY <1>0, <1>17 DEF MvOperand
    <2> QED BY <1>17, <2>2, <2>3, <2>4 DEF MvOperand, Labels
  <1>18. CASE MvRefused
    BY <1>18 DEF MvRefused, End, Labels
  <1>19. CASE Ln
    <2> DEFINE old == IF argc > 3
                      THEN NodesAt(fs, Name(argv[2])) \cap (Files \cup Links) ELSE {}
    <2>1. CASE UNCHANGED fs
      BY <1>19, <2>1 DEF Ln, Labels
    <2>2. CASE argc > 3 /\ \E n \in old, y \in Free(argv[3]) : Enters(y, n)
      <3>1. PICK n \in old, y \in Free(argv[3]) : Enters(y, n)
        BY <2>2
      <3>2. n \in Nodes
        BY DEF Nodes
      <3>3. argv[3] \in Paths
        BY <1>0, <2>2
      <3>4. y \in Places
        BY <3>3, LookupTypes
      <3>5. fs' \in Trees
        BY <3>1, <3>2, <3>4, TreeUpdates DEF Enters
      <3> QED BY <1>19, <3>5 DEF Ln, Labels
    <2> QED BY <1>19, <2>1, <2>2 DEF Ln
  <1>20. CASE Symlink
    <2>1. CASE UNCHANGED fs
      BY <1>20, <2>1 DEF Symlink, Labels
    <2>2. CASE /\ Spare(Links) # {}
               /\ \E y \in Free(argv[3]) :
                    fs' = [fs EXCEPT !.at[y] = Made(Links), !.sym[Made(Links)] = argv[2]]
      <3>1. PICK y \in Free(argv[3]) :
                    fs' = [fs EXCEPT !.at[y] = Made(Links), !.sym[Made(Links)] = argv[2]]
        BY <2>2
      <3>2. argv[3] \in Paths /\ argv[2] \in Paths
        <4>1. argc = 4
          BY <1>20 DEF Symlink
        <4>2. Len(argv) \in Nat /\ Len(argv) + 1 = 4
          BY <1>0, <4>1
        <4>3. \A m \in Nat : m + 1 = 4 => m = 3
          OBVIOUS
        <4> QED BY <1>0, <4>2, <4>3
      <3>3. y \in Places /\ Made(Links) \in Nodes
        BY <2>2, <3>2, LookupTypes, MadeNew DEF Nodes
      <3>4. fs' \in Trees
        BY <3>1, <3>2, <3>3, TreeUpdates
      <3> QED BY <1>20, <3>4 DEF Symlink, Labels
    <2> QED BY <1>20, <2>1, <2>2 DEF Symlink
  <1>21. CASE GetMask
    <2>1. arg' \in 1..(Len(argv) + 1)
      BY <1>0, <1>21 DEF GetMask
    <2> QED BY <1>21, <2>1 DEF GetMask, Labels
  <1>22. CASE MkdirOperand
    <2>1. CASE UNCHANGED <<fs, arg>> /\ pc' = "failed"
      BY <1>22, <2>1 DEF MkdirOperand, Labels
    <2>2. CASE /\ Spare(Dirs) # {} /\ pc' = "operand" /\ arg' = arg + 1
               /\ \E y \in Free(argv[arg]) : Enters(y, Made(Dirs))
      <3>1. PICK y \in Free(argv[arg]) : Enters(y, Made(Dirs))
        BY <2>2
      <3>2. argv[arg] \in Paths
        BY <1>0, <1>22 DEF MkdirOperand
      <3>3. y \in Places /\ Made(Dirs) \in Nodes
        BY <2>2, <3>2, LookupTypes, MadeNew DEF Nodes
      <3>4. fs' \in Trees
        BY <3>1, <3>3, TreeUpdates DEF Enters
      <3>5. arg' \in 1..(Len(argv) + 1)
        BY <1>0, <1>22, <2>2 DEF MkdirOperand
      <3> QED BY <1>22, <2>2, <3>4, <3>5 DEF MkdirOperand, Labels
    <2> QED BY <1>22, <2>1, <2>2 DEF MkdirOperand
  <1>23. CASE MkdirDone
    BY <1>23 DEF MkdirDone, End, Labels
  <1> QED BY <1>1, <1>2, <1>3, <1>4, <1>5, <1>6, <1>7, <1>8, <1>9, <1>10, <1>11, <1>12,
             <1>13, <1>14, <1>15, <1>16, <1>17, <1>18, <1>19, <1>20, <1>21, <1>22, <1>23
          DEF Next, Step

LEMMA LabelledStep ==
    ASSUME Typed, Labelled, Next
    PROVE  Labelled'
  <1> USE DEF Labelled, given, command, Copying, Walking, At, End
  <1>0. /\ Len(argv) \in Nat /\ argc \in Nat
        /\ First \in 1..2
        /\ argc = Len(argv) + 1
        /\ Option("-r") => Len(argv) > 0
    BY ArgvTypes DEF argc, Typed
  <1> DEFINE Same0 == UNCHANGED argv => UNCHANGED <<argc, First>>
  <1>00. Same0
    BY DEF argc, First, Option
  <1>1. CASE Run
    BY <1>1 DEF Run
  <1>2. CASE Usage
    BY <1>2, <1>00 DEF Usage
  <1>3. CASE CpFiles
    BY <1>3, <1>00 DEF CpFiles
  <1>4. CASE Target
    <2>1. argc' > 3 /\ arg' \in First'..Len(argv') /\ tool' # "ln" /\ stack' = <<>>
      BY <1>0, <1>00, <1>4 DEF Target
    <2> QED BY <1>4, <2>1 DEF Target
  <1>5. CASE CpOperand
    <2>1. argc' > 3 /\ arg' \in First'..(Len(argv') - 1) /\ tool' = "cp"
      BY <1>0, <1>00, <1>5 DEF CpOperand, Typed, TypeOK
    <2>2. pc' \in {"fopen", "enter", "failed"} /\ stack' = stack
      BY <1>5 DEF CpOperand
    <2> QED BY <1>5, <2>1, <2>2
  <1>6. CASE Finished
    BY <1>6, <1>00 DEF Finished
  <1>7. CASE Open
    BY <1>7, <1>00 DEF Open
  <1>8. CASE Truncate
    BY <1>8, <1>00 DEF Truncate
  <1>9. CASE TruncateFails
    BY <1>9, <1>00 DEF TruncateFails
  <1>10. CASE Copy
    <2>1. CASE stack # <<>>
      BY <1>10, <1>00, <2>1 DEF Copy
    <2>2. CASE stack = <<>> /\ argc = 3
      BY <1>10, <1>00, <2>2 DEF Copy
    <2>3. CASE stack = <<>> /\ argc # 3
      <3>1. argc > 3 /\ arg + 1 \in First..Len(argv)
        BY <1>0, <1>10, <2>3 DEF Copy
      <3> QED BY <1>10, <1>00, <2>3, <3>1 DEF Copy
    <2> QED BY <2>1, <2>2, <2>3
  <1>11. CASE EnterFails
    BY <1>11, <1>00 DEF EnterFails
  <1>12. CASE Enter
    <2>1. stack' # <<>>
      <3>1. PICK f \in Frames : stack' = <<f>> \o stack
        BY <1>12 DEF Enter, CanOpen, Entries, Frames
      <3> QED BY <3>1, PushShape DEF Typed
    <2> QED BY <1>12, <1>00, <2>1 DEF Enter
  <1>13. ASSUME NEW n \in Names, Read(n) PROVE Labelled'
    <2>1. stack' # <<>>
      <3>1. Frame \in Frames /\ Tail(stack) \in Seq(Frames)
        BY <1>13, StackTypes DEF Read, Frame, Typed
      <3>2. [Frame EXCEPT !.seen = @ \cup {n}] \in Frames
        BY <3>1 DEF Frames
      <3> QED BY <1>13, <3>1, <3>2, PushShape DEF Read
    <2> QED BY <1>13, <1>00, <2>1 DEF Read
  <1>14. CASE Leave
    <2>1. CASE Len(stack) = 1
      <3>1. arg + 1 \in First..Len(argv) /\ argc > 3 /\ tool = "cp"
        BY <1>0, <1>14 DEF Leave
      <3>2. Tail(stack) = <<>>
        BY <1>14, <2>1, PopShape DEF Leave, Typed
      <3> QED BY <1>14, <1>00, <2>1, <3>1, <3>2 DEF Leave
    <2>2. CASE Len(stack) # 1
      <3>1. Tail(stack) # <<>>
        BY <1>14, <2>2, PopShape DEF Leave, Typed
      <3> QED BY <1>14, <1>00, <2>2, <3>1 DEF Leave
    <2> QED BY <2>1, <2>2
  <1>15. CASE Back
    <2>1. CASE stack = <<>>
      <3>1. arg + 1 \in First..Len(argv) /\ argc > 3 /\ tool = "cp"
        BY <1>0, <1>15 DEF Back
      <3> QED BY <1>15, <1>00, <2>1, <3>1 DEF Back
    <2>2. CASE stack # <<>>
      BY <1>15, <1>00, <2>2 DEF Back
    <2> QED BY <2>1, <2>2
  <1>16. CASE MvFiles
    <2>1. pc' \in {"ok", "failed"}
      BY <1>16 DEF MvFiles, Rename
    <2> QED BY <1>16, <1>00, <2>1 DEF MvFiles
  <1>17. CASE MvOperand
    <2>1. pc' \in {"operand", "failed"} /\ tool' = "mv" /\ stack' = <<>>
      BY <1>17 DEF MvOperand, Rename
    <2>2. argc' > 3 /\ arg' \in First'..Len(argv')
      BY <1>0, <1>00, <1>17 DEF MvOperand, Typed, TypeOK
    <2> QED BY <2>1, <2>2
  <1>18. CASE MvRefused
    BY <1>18, <1>00 DEF MvRefused
  <1>19. CASE Ln
    <2>1. pc' \in {"ok", "failed"} /\ stack' = <<>>
      BY <1>19 DEF Ln
    <2> QED BY <2>1
  <1>20. CASE Symlink
    <2>1. pc' \in {"ok", "failed"} /\ stack' = <<>>
      BY <1>20 DEF Symlink
    <2> QED BY <2>1
  <1>21. CASE GetMask
    <2>1. pc' \in {"failed", "spin", "operand"} /\ tool' = "mkdir" /\ stack' = <<>>
      BY <1>21 DEF GetMask
    <2> QED BY <2>1
  <1>22. CASE MkdirOperand
    <2>1. pc' \in {"failed", "operand"} /\ tool' = "mkdir" /\ stack' = <<>>
      BY <1>22 DEF MkdirOperand
    <2> QED BY <2>1
  <1>23. CASE MkdirDone
    BY <1>23, <1>00 DEF MkdirDone
  <1> QED BY <1>1, <1>2, <1>3, <1>4, <1>5, <1>6, <1>7, <1>8, <1>9, <1>10, <1>11, <1>12,
             <1>13, <1>14, <1>15, <1>16, <1>17, <1>18, <1>19, <1>20, <1>21, <1>22, <1>23
          DEF Next, Step

\* How a step changes the names.
LEMMA NamesStep ==
    ASSUME Typed, Labelled, Next, OneName(fs)
    PROVE  OneName(fs')
  <1> SUFFICES ASSUME fs'.at # fs.at PROVE OneName(fs')
    BY DEF OneName
  <1>0. /\ fs \in Trees /\ fs.at \in [Places -> Nodes \cup {Nothing}]
        /\ Dirs \cap (Files \cup Links) = {} /\ Nothing \notin Dirs
    BY TreeFields, NodesAssumption DEF Typed, TypeOK, Nodes
  <1>1. ASSUME NEW x \in Places, NEW n \in Nodes, fs'.at = [fs.at EXCEPT ![x] = n],
               n \in Dirs => ~ InTree(n)
        PROVE  OneName(fs')
    <2>1. \A z \in Places : fs.at[z] = n => InTree(n)
      BY <1>0 DEF InTree
    <2> QED BY <1>0, <1>1, <2>1 DEF OneName
  <1>2. ASSUME NEW x \in Places, NEW y \in Places,
               fs'.at = [[fs.at EXCEPT ![y] = fs.at[x]] EXCEPT ![x] = Nothing]
        PROVE  OneName(fs')
    BY <1>0, <1>2 DEF OneName
  <1>3. ASSUME NEW p \in Paths, NEW q \in Paths, NEW next, Rename(p, q, next)
        PROVE  OneName(fs')
    <2>1. Name(p) \subseteq Places /\ Name(q) \subseteq Places
      BY LookupTypes
    <2>2. PICK x \in Name(p), y \in Name(q) :
             fs' = [fs EXCEPT !.at[y] = fs.at[x], !.at[x] = Nothing]
      BY <1>3 DEF Rename
    <2>3. fs'.at = [[fs.at EXCEPT ![y] = fs.at[x]] EXCEPT ![x] = Nothing]
      BY <1>0, <2>2 DEF Trees
    <2> QED BY <1>2, <2>1, <2>3
  <1>4. /\ Len(argv) \in Nat
        /\ \A k \in 1..Len(argv) : argv[k] \in Paths
        /\ argv # <<>> => Len(argv) > 0 /\ Last \in Paths
    BY ArgvTypes DEF Typed
  <1>5. CASE Truncate
    <2>1. PICK x \in Goal(to) :
             \/ fs' = [fs EXCEPT !.text[fs.at[x]] = Empty]
             \/ /\ Spare(Files) # {}
                /\ fs' = [fs EXCEPT !.at[x] = Made(Files), !.text[Made(Files)] = Empty]
      BY <1>5 DEF Truncate
    <2>2. fs'.at = fs.at \/ fs'.at = [fs.at EXCEPT ![x] = Made(Files)]
      BY <1>0, <2>1 DEF Trees
    <2>3. x \in Places /\ Made(Files) \in Files
      BY <1>0, <2>1, MadeNew, LookupTypes DEF Typed, Trees
    <2> QED BY <1>0, <1>1, <2>2, <2>3 DEF Nodes
  <1>6. CASE Copy
    BY <1>0, <1>6 DEF Copy, Trees
  <1>7. CASE MvFiles
    <2>1. argv[1] \in Paths /\ argv[2] \in Paths
      BY <1>4, <1>7 DEF MvFiles, argc
    <2> QED BY <1>3, <1>7, <2>1 DEF MvFiles
  <1>8. CASE MvOperand
    <2>1. argv[arg] \in Paths /\ Last \in Paths
      BY <1>4, <1>8, EmptySeq DEF MvOperand, Typed, TypeOK
    <2>2. Join(Last, argv[arg]) \in Paths
      BY <2>1, JoinTypes
    <2> QED BY <1>3, <1>8, <2>1, <2>2 DEF MvOperand
  <1>9. CASE Ln
    <2>1. PICK n \in Files \cup Links, y \in Free(argv[3]) : Enters(y, n) /\ argc > 3
      BY <1>9 DEF Ln
    <2>2. argv[3] \in Paths
      BY <1>4, <2>1 DEF argc
    <2>3. y \in Places /\ n \in Nodes /\ n \notin Dirs
      BY <1>0, <2>2, LookupTypes DEF Nodes
    <2>4. fs'.at = [fs.at EXCEPT ![y] = n]
      BY <1>0, <2>1 DEF Enters, Trees
    <2> QED BY <1>1, <2>3, <2>4
  <1>10. CASE Symlink
    <2>1. PICK y \in Free(argv[3]) :
             /\ Spare(Links) # {}
             /\ fs' = [fs EXCEPT !.at[y] = Made(Links), !.sym[Made(Links)] = argv[2]]
      BY <1>10 DEF Symlink
    <2>2. argv[3] \in Paths
      <3>1. Len(argv) + 1 = 4
        BY <1>10 DEF Symlink, argc
      <3>2. \A m \in Nat : m + 1 = 4 => m = 3
        OBVIOUS
      <3> QED BY <1>4, <3>1, <3>2
    <2>3. y \in Places /\ Made(Links) \in Links
      BY <2>1, <2>2, LookupTypes, MadeNew
    <2>4. fs'.at = [fs.at EXCEPT ![y] = Made(Links)]
      BY <1>0, <2>1 DEF Trees
    <2> QED BY <1>0, <1>1, <2>3, <2>4 DEF Nodes
  <1>11. CASE MkdirOperand
    <2>1. PICK y \in Free(argv[arg]) : Spare(Dirs) # {} /\ Enters(y, Made(Dirs))
      BY <1>11 DEF MkdirOperand
    <2>2. argv[arg] \in Paths
      BY <1>4, <1>11 DEF MkdirOperand, Typed, TypeOK
    <2>3. y \in Places /\ Made(Dirs) \in Nodes /\ ~ InTree(Made(Dirs))
      BY <2>1, <2>2, LookupTypes, MadeNew DEF Nodes
    <2>4. fs'.at = [fs.at EXCEPT ![y] = Made(Dirs)]
      BY <1>0, <2>1 DEF Enters, Trees
    <2> QED BY <1>1, <2>3, <2>4
  <1> QED BY <1>5, <1>6, <1>7, <1>8, <1>9, <1>10, <1>11
          DEF Next, Run, Step, Usage, CpFiles, Target, CpOperand, Finished, Open,
              TruncateFails, EnterFails, Enter, Read, Leave, Back, MvRefused, GetMask,
              MkdirDone

LEMMA TypesInvariant == Spec => []TInv
  <1>1. Init => TInv
    BY TypedInit, TreeAssumption DEF Init, TInv, OneName
  <1>2. TInv /\ [Next]_vars => TInv'
    <2> SUFFICES ASSUME TInv, [Next]_vars PROVE TInv'
      OBVIOUS
    <2>1. CASE Next
      <3>0. Typed /\ Labelled /\ OneName(fs)
        BY DEF TInv
      <3>1. Typed' /\ Labelled' /\ OneName(fs')
        <4>1. Typed'
          BY <2>1, <3>0, TypedStep
        <4>2. Labelled'
          BY <2>1, <3>0, LabelledStep, ZenonT(60)
        <4> QED BY <2>1, <3>0, <4>1, <4>2, NamesStep
      <3>2. before' = fs \/ before' = before
        BY <2>1 DEF Next, Step, Run, Usage, CpFiles, Target, CpOperand, Finished, Open,
              Truncate, TruncateFails, Copy, EnterFails, Enter, Read, Leave, Back, MvFiles,
              MvOperand, MvRefused, Ln, Symlink, GetMask, MkdirOperand, MkdirDone, End, command
      <3> QED BY <3>1, <3>2 DEF TInv, OneName
    <2>2. CASE UNCHANGED vars
      BY <2>2, SMTT(30)
         DEF vars, given, command, TInv, Typed, TypeOK, Labelled, OneName, argc, First,
                  Option, Copying, Walking
    <2> QED BY <2>1, <2>2
  <1> QED BY <1>1, <1>2, PTL DEF Spec

\* Whatever is run on whatever tree, it stays a tree, and no tool opens more
\* directories than it may.
THEOREM CopyTypes == Spec => []TypeOK
  <1>1. TInv => TypeOK
    BY DEF TInv, Typed
  <1> QED BY <1>1, TypesInvariant, PTL

-----------------------------------------------------------------------------
(* mv *)

\* As long as mv runs, no directory and no link is anywhere but where it was,
\* and what is somewhere else was put there for an operand before the one in
\* hand.
Moved ==
    /\ cwd = Start /\ fs.text = before.text /\ fs.sym = before.sym
    /\ argc > 3 =>
          /\ Fewer(before.at, fs.at)
          /\ \A y \in Places :
                \/ fs.at[y] \in {before.at[y], Nothing}
                \/ \E j \in Movers : j < arg /\ y \in Onto(j)
    /\ \A x \in Places : before.at[x] \in Files =>
          \/ \E y \in Places : fs.at[y] = before.at[x]
          \/ \E k \in Movers : \E y \in Onto(k) : before.at[y] = before.at[x]

MvInv == Ran("mv") /\ Orderly => Moved

\* A name is moved, or nothing happens.
LEMMA RenameMoves ==
    ASSUME TInv, NEW p \in Paths, NEW q \in Paths, NEW next, Rename(p, q, next)
    PROVE  \/ UNCHANGED fs
           \/ \E x \in Name(p), y \in Name(q) :
                /\ x \in Places /\ y \in Places /\ fs.at[x] \in Nodes
                /\ fs.at[y] \in Dirs => fs.at[x] \in Dirs
                /\ fs.at[x] # fs.at[y] /\ x # y
                /\ fs'.at = [[fs.at EXCEPT ![y] = fs.at[x]] EXCEPT ![x] = Nothing]
                /\ fs'.text = fs.text /\ fs'.sym = fs.sym
  <1>1. /\ Name(p) \subseteq Places /\ Name(q) \subseteq Places
        /\ fs \in Trees /\ fs.at \in [Places -> Nodes \cup {Nothing}]
    BY LookupTypes, TreeFields DEF TInv, Typed, TypeOK
  <1>2. ASSUME NEW x \in Name(p), NEW y \in Name(q), ~ Refuses(x, y),
               fs' = [fs EXCEPT !.at[y] = fs.at[x], !.at[x] = Nothing],
               fs.at[x] # fs.at[y]
        PROVE  /\ x \in Places /\ y \in Places /\ fs.at[x] \in Nodes
               /\ fs.at[y] \in Dirs => fs.at[x] \in Dirs
               /\ fs.at[x] # fs.at[y] /\ x # y
               /\ fs'.at = [[fs.at EXCEPT ![y] = fs.at[x]] EXCEPT ![x] = Nothing]
               /\ fs'.text = fs.text /\ fs'.sym = fs.sym
    <2>1. x \in Places /\ y \in Places
      BY <1>1
    <2>2. fs.at[x] # Nothing /\ (fs.at[y] \in Dirs => fs.at[x] \in Dirs)
      BY <1>2 DEF Refuses
    <2>3. /\ fs'.at = [[fs.at EXCEPT ![y] = fs.at[x]] EXCEPT ![x] = Nothing]
          /\ fs'.text = fs.text /\ fs'.sym = fs.sym
      BY <1>1, <1>2 DEF Trees
    <2> QED BY <1>1, <1>2, <2>1, <2>2, <2>3
  <1> QED BY <1>2 DEF Rename

LEMMA MoversStay ==
    ASSUME UNCHANGED <<argv, before>>
    PROVE  /\ argc' = argc /\ Last' = Last /\ First' = First /\ Movers' = Movers
           /\ \A k : Onto(k)' = Onto(k)
           /\ Orderly' = Orderly
  BY DEF argc, Last, First, Movers, Onto, Name0, Option, Orderly

LEMMA MvFilesStep ==
    ASSUME TInv, MvFiles, Moved
    PROVE  Moved'
  <1>1. /\ Len(argv) \in Nat /\ argc = Len(argv) + 1 /\ argc = 3
        /\ argv[1] \in Paths /\ argv[2] \in Paths
    BY ArgvTypes DEF TInv, Typed, MvFiles, argc
  <1>2. /\ fs = before /\ cwd = Start
        /\ UNCHANGED <<argv, before, cwd>>
    BY DEF MvFiles, At, TInv, Labelled, command
  <1>3. Onto(1) = Name(argv[2]) /\ Movers = {1}
    BY <1>1, <1>2 DEF Onto, Name0, Name, Movers
  <1>4. fs.at \in [Places -> Nodes \cup {Nothing}]
    BY TreeFields DEF TInv, Typed, TypeOK
  <1>5. CASE UNCHANGED fs
    BY <1>1, <1>2, <1>5, MoversStay DEF Moved
  <1>6. CASE fs' # fs
    <2>1. PICK x \in Name(argv[1]), y \in Name(argv[2]) :
                /\ x \in Places /\ y \in Places /\ fs.at[x] # fs.at[y] /\ x # y
                /\ fs'.at = [[fs.at EXCEPT ![y] = fs.at[x]] EXCEPT ![x] = Nothing]
                /\ fs'.text = fs.text /\ fs'.sym = fs.sym
      <3>1. Rename(argv[1], argv[2], "ok")
        BY DEF MvFiles
      <3>2. \A p \in Paths, q \in Paths : Rename(p, q, "ok") =>
               \/ UNCHANGED fs
               \/ \E x \in Name(p), y \in Name(q) :
                    /\ x \in Places /\ y \in Places /\ fs.at[x] # fs.at[y] /\ x # y
                    /\ fs'.at = [[fs.at EXCEPT ![y] = fs.at[x]] EXCEPT ![x] = Nothing]
                    /\ fs'.text = fs.text /\ fs'.sym = fs.sym
        BY RenameMoves
      <3> QED BY <1>1, <1>6, <3>1, <3>2
    <2>2. ASSUME NEW z \in Places, before.at[z] \in Files
          PROVE  \/ \E w \in Places : fs'.at[w] = before.at[z]
                 \/ \E k \in Movers : \E w \in Onto(k) : before.at[w] = before.at[z]
      <3>1. CASE z = y
        BY <1>2, <1>3, <2>1, <3>1
      <3>2. CASE z = x
        BY <1>2, <1>4, <2>1, <3>2
      <3>3. CASE z # x /\ z # y
        BY <1>2, <1>4, <2>1, <3>3
      <3> QED BY <3>1, <3>2, <3>3
    <2> QED BY <1>1, <1>2, <2>1, <2>2, MoversStay DEF Moved
  <1> QED BY <1>5, <1>6

LEMMA MvOperandStep ==
    ASSUME TInv, MvOperand, Moved, Orderly
    PROVE  Moved'
  <1> DEFINE p == argv[arg]
  <1> DEFINE q == Join(Last, argv[arg])
  <1>1. /\ argc > 3 /\ arg \in Nat /\ arg \in Movers
        /\ p \in Paths /\ q \in Paths
    <2>1. /\ Len(argv) \in Nat /\ argc = Len(argv) + 1 /\ argc > 3 /\ First \in 1..2
          /\ arg \in First..(Len(argv) - 1)
      BY ArgvTypes DEF TInv, Typed, TypeOK, MvOperand, argc, Labelled, At
    <2>2. p \in Paths /\ Last \in Paths
      BY <2>1, ArgvTypes, EmptySeq DEF TInv, Typed
    <2> QED BY <2>1, <2>2, JoinTypes DEF Movers
  <1>2. /\ fs \in Trees /\ before \in Trees /\ Start \in Dirs /\ fs.sym = before.sym
        /\ fs.at \in [Places -> Nodes \cup {Nothing}]
        /\ before.at \in [Places -> Nodes \cup {Nothing}]
    BY TreeFields, NodesAssumption DEF TInv, Typed, TypeOK, Moved
  <1>3. Fewer(before.at, fs.at) /\ cwd = Start /\ fs.text = before.text
    BY <1>1 DEF Moved
  <1>4. UNCHANGED <<argv, before, cwd>> /\ arg' = arg + 1
    BY DEF MvOperand, command
  <1>5. Name(p) \subseteq Name0(p) /\ Name(q) \subseteq Onto(arg)
    <2>1. Onto(arg) = Name0(q)
      BY <1>1 DEF Onto
    <2>2. \A r \in Paths : Place(fs, Start, r, FALSE) \subseteq Place(before, Start, r, FALSE)
      BY <1>2, <1>3, FewerPlaces
    <2> QED BY <1>1, <1>3, <2>1, <2>2 DEF Name, Name0
  <1>6. CASE UNCHANGED fs
    BY <1>1, <1>3, <1>4, <1>6, MoversStay DEF Moved
  <1>7. CASE fs' # fs
    <2>1. PICK x \in Name(p), y \in Name(q) :
                /\ x \in Places /\ y \in Places /\ fs.at[x] \in Nodes
                /\ fs.at[y] \in Dirs => fs.at[x] \in Dirs
                /\ fs.at[x] # fs.at[y] /\ x # y
                /\ fs'.at = [[fs.at EXCEPT ![y] = fs.at[x]] EXCEPT ![x] = Nothing]
                /\ fs'.text = fs.text /\ fs'.sym = fs.sym
      BY <1>1, <1>7, RenameMoves DEF MvOperand
    <2>2. fs.at[x] \notin Links
      <3>1. before.at[x] \notin Links
        BY <1>1, <1>5, <2>1 DEF Orderly
      <3> QED BY <1>3, <2>1, <3>1 DEF Fewer
    <2>3. fs.at[x] \in Files
      <3>1. Goal(p) = {x}
        <4>1. \A r \in Paths : \A z \in Place(fs, Start, r, FALSE) :
                 fs.at[z] \notin Links => Place(fs, Start, r, TRUE) = {z}
          BY <1>2, FinalPlace
        <4>2. p \in Paths /\ x \in Place(fs, Start, p, FALSE)
          BY <1>1, <1>3 DEF Name
        <4> HIDE DEF p
        <4> QED BY <1>3, <2>2, <4>1, <4>2 DEF Goal
      <3> QED BY <3>1 DEF MvOperand, Found, NodesAt
    <2>4. y \in Onto(arg) /\ \A j \in Movers : j < arg => y \notin Onto(j)
      BY <1>1, <1>5 DEF Orderly
    <2>5. fs.at[y] \in {before.at[y], Nothing}
      BY <1>1, <2>1, <2>4 DEF Moved
    <2>6. Fewer(before.at, fs'.at)
      <3>1. fs.at[x] \notin Dirs \cup Links /\ Nothing \notin Dirs \cup Links
        BY <2>3, NodesAssumption DEF Nodes
      <3> QED BY <1>2, <1>3, <2>1, <3>1 DEF Fewer
    <2>7. ASSUME NEW z \in Places
          PROVE  \/ fs'.at[z] \in {before.at[z], Nothing}
                 \/ \E j \in Movers : j < arg + 1 /\ z \in Onto(j)
      <3>1. CASE z = y
        BY <1>1, <2>4, <3>1
      <3>2. CASE z = x
        BY <1>2, <2>1, <3>2
      <3>3. CASE z # x /\ z # y
        <4>1. fs'.at[z] = fs.at[z]
          BY <1>2, <2>1, <3>3
        <4>2. \A j \in Movers : j < arg => j < arg + 1
          BY <1>1 DEF Movers, First
        <4> QED BY <1>1, <4>1, <4>2 DEF Moved
      <3> QED BY <3>1, <3>2, <3>3
    <2>8. ASSUME NEW z \in Places, before.at[z] \in Files
          PROVE  \/ \E w \in Places : fs'.at[w] = before.at[z]
                 \/ \E k \in Movers : \E w \in Onto(k) : before.at[w] = before.at[z]
      <3>1. CASE \E k \in Movers : \E w \in Onto(k) : before.at[w] = before.at[z]
        BY <3>1
      <3>2. CASE \E w \in Places : fs.at[w] = before.at[z]
        <4>1. PICK w \in Places : fs.at[w] = before.at[z]
          BY <3>2
        <4>2. CASE w = x
          BY <1>2, <2>1, <4>1, <4>2
        <4>3. CASE w = y
          <5>1. fs.at[y] # Nothing
            BY <2>8, <4>1, <4>3, NodesAssumption DEF Nodes
          <5>2. before.at[y] = before.at[z]
            BY <2>5, <4>1, <4>3, <5>1
          <5> QED BY <1>1, <2>4, <5>2
        <4>4. CASE w # x /\ w # y
          <5>1. fs'.at[w] = fs.at[w]
            BY <1>2, <2>1, <4>4
          <5> QED BY <4>1, <5>1
        <4> QED BY <4>2, <4>3, <4>4
      <3> QED BY <2>8, <3>1, <3>2 DEF Moved
    <2> QED BY <1>1, <1>2, <1>3, <1>4, <2>1, <2>6, <2>7, <2>8, MoversStay DEF Moved
  <1> QED BY <1>6, <1>7

LEMMA MvStep ==
    ASSUME TInv, MvInv, Next
    PROVE  MvInv'
  <1> SUFFICES ASSUME Ran("mv")', Orderly' PROVE Moved'
    BY DEF MvInv
  <1>1. CASE Run
    BY <1>1 DEF Run, Moved, Fewer
  <1>2. CASE Step
    <2>1. UNCHANGED <<tool, argv, before>>
      BY <1>2 DEF Step, Usage, CpFiles, Target, CpOperand, Finished, Open,
              Truncate, TruncateFails, Copy, EnterFails, Enter, Read, Leave, Back, MvFiles,
              MvOperand, MvRefused, Ln, Symlink, GetMask, MkdirOperand, MkdirDone, End, command
    <2>2. tool = "mv" /\ Orderly /\ Moved
      BY <2>1, MoversStay DEF MvInv, Ran
    <2>3. CASE MvFiles
      BY <2>2, <2>3, MvFilesStep
    <2>4. CASE MvOperand
      BY <2>2, <2>4, MvOperandStep
    <2>5. CASE /\ UNCHANGED <<fs, argv, before, cwd>>
               /\ UNCHANGED arg \/ fs = before
      BY <2>2, <2>5, MoversStay DEF Moved
    <2>6. \/ MvFiles \/ MvOperand
          \/ /\ UNCHANGED <<fs, argv, before, cwd>>
             /\ UNCHANGED arg \/ fs = before
      BY <1>2, <2>2 DEF Step, Usage, CpFiles, Target, CpOperand, Finished,
              Open, Truncate, TruncateFails, Copy, EnterFails, Enter, Read, Leave, Back,
              MvRefused, Ln, Symlink, GetMask, MkdirOperand, MkdirDone, End, command,
              At, TInv, Labelled, Copying, Walking
    <2> QED BY <2>3, <2>4, <2>5, <2>6, SMTT(30)
  <1> QED BY <1>1, <1>2 DEF Next

\* Whatever mv is given on whatever tree, and wherever it stops, no file is lost
\* but those that something was moved onto.
THEOREM MvLoses == Spec => []MvLosesNothing
  <1>1. Init => MvInv
    BY DEF Init, MvInv, Ran
  <1>2. TInv /\ MvInv /\ [Next]_vars => MvInv'
    <2> SUFFICES ASSUME TInv, MvInv, [Next]_vars PROVE MvInv'
      OBVIOUS
    <2>1. CASE UNCHANGED vars
      <3>1. UNCHANGED <<fs, argv, before, cwd, arg, pc>>
        BY <2>1 DEF vars, command, given
      <3>2. /\ argc' = argc /\ Movers' = Movers /\ \A k : Onto(k)' = Onto(k)
            /\ Orderly' = Orderly /\ Ran("mv")' = Ran("mv")
        BY <2>1, <3>1, MoversStay DEF Ran, vars, command
      <3>3. Moved => Moved'
        BY <3>1, <3>2 DEF Moved
      <3> QED BY <3>2, <3>3 DEF MvInv
    <2> QED BY <2>1, MvStep
  <1>3. TInv /\ MvInv => MvLosesNothing
    <2> SUFFICES ASSUME TInv, Moved PROVE MvLosesNothing
      BY DEF MvInv, MvLosesNothing
    <2>1. DOMAIN fs.at = Places
      BY TreeFields DEF TInv, Typed, TypeOK
    <2> QED BY <2>1 DEF Moved, MvLosesNothing, InTree
  <1> QED BY <1>1, <1>2, <1>3, TypesInvariant, PTL DEF Spec

-----------------------------------------------------------------------------
(* cp *)

\* Places cp may write to.
Targets == {c[2] : c \in {e \in Due : before.at[e[1]] \notin unread}}

\* The tree of before with new files, each in one place, and other contents.
Grown ==
    /\ fs.sym = before.sym /\ MoreFiles(before.at, fs.at)
    /\ \A y \in Places : fs.at[y] # before.at[y] =>
          /\ \A z \in Places : before.at[z] # fs.at[y] /\ (z # y => fs.at[z] # fs.at[y])
          /\ y \in Targets
    /\ \A y \in Places :
          before.at[y] \in Files /\ fs.text[before.at[y]] # before.text[before.at[y]] =>
              before.at[y] \in NodesAt(before, Targets)

\* The directory in hand.
Top(s) == IF s = <<>> THEN Start ELSE s[1].dir

\* Frames of directories each in the one after it, and below an operand.
Chain(s) ==
    \A k \in 1..Len(s) :
        /\ \E e \in DirOperands : s[k].dir \in Reach(before, e)
        /\ \E n \in Names :
              before.at[<<IF k = Len(s) THEN Start ELSE s[k + 1].dir, n>>] = s[k].dir

Walk ==
    /\ cwd = Top(stack) /\ Chain(stack)
    /\ pc = "back" => stack = <<>>
    /\ pc = "enter" =>
          IF stack = <<>> THEN from = argv[arg]
          ELSE \E n \in Names : from = <<n>> /\ before.at[<<cwd, n>>] \in Dirs

\* What is copied.
Hand ==
    /\ pc \in Copying =>
        IF stack # <<>>
        THEN \E n \in Names : /\ from = <<n>> /\ to = Join(Last, <<n>>)
                              /\ fs.at[<<cwd, n>>] \in Files
        ELSE IF argc = 3 THEN from = argv[1] /\ to = argv[2]
        ELSE /\ from = argv[arg] /\ to = Join(Last, argv[arg])
             /\ \A s \in Goal0(argv[arg]) : before.at[s] \notin Dirs
    /\ pc \in {"trunc", "copy"} => Goal(to) \subseteq Targets

CpInv == Ran("cp") => Grown /\ Walk /\ Hand

LEMMA CpStays ==
    ASSUME UNCHANGED <<argv, before, unread>>
    PROVE  /\ argc' = argc /\ Last' = Last /\ First' = First
           /\ Targets' = Targets /\ Copies' = Copies /\ Due' = Due
           /\ DirOperands' = DirOperands
           /\ \A p : Goal0(p)' = Goal0(p)
           /\ \A s : Top(s)' = Top(s) /\ Chain(s)' = Chain(s)
  BY DEF argc, Last, First, Option, Targets, Copies, Due, DirOperands, DirsOf, Goal0,
         Operands, Below, CopiesFrom, TreeCopies, OperandCopies, Top, Chain

LEMMA ReachClosed ==
    ASSUME NEW f \in Trees, NEW d \in Dirs
    PROVE  /\ d \in Reach(f, d) /\ Reach(f, d) \subseteq Dirs
           /\ \A e \in Reach(f, d), n \in Names :
                 f.at[<<e, n>>] \in Dirs => f.at[<<e, n>>] \in Reach(f, d)
  <1>1. d \in Reach(f, d) /\ Reach(f, d) \subseteq Dirs
    BY DEF Reach
  <1>2. ASSUME NEW e \in Reach(f, d), NEW n \in Names, f.at[<<e, n>>] \in Dirs
        PROVE  f.at[<<e, n>>] \in Reach(f, d)
    <2> SUFFICES ASSUME NEW S \in SUBSET Dirs, d \in S,
                        \A x \in S \X Names : f.at[x] \in Dirs => f.at[x] \in S
                 PROVE  f.at[<<e, n>>] \in S
      BY <1>2 DEF Reach
    <2>1. e \in S
      BY DEF Reach
    <2> QED BY <1>2, <2>1
  <1> QED BY <1>1, <1>2

LEMMA ChainPush ==
    ASSUME NEW s \in Seq(Frames), Chain(s), NEW f \in Frames,
           NEW e \in DirOperands, f.dir \in Reach(before, e),
           NEW n \in Names, before.at[<<Top(s), n>>] = f.dir
    PROVE  Chain(<<f>> \o s) /\ Top(<<f>> \o s) = f.dir
  <1> DEFINE t == <<f>> \o s
  <1>1. /\ t # <<>> /\ Len(t) = Len(s) + 1 /\ t[1] = f
        /\ \A k \in 1..Len(s) : t[k + 1] = s[k]
    BY PushShape
  <1>2. Len(s) \in Nat /\ (s = <<>> <=> Len(s) = 0)
    BY EmptySeq
  <1> HIDE DEF t
  <1>3. ASSUME NEW k \in 1..Len(t)
        PROVE  /\ \E c \in DirOperands : t[k].dir \in Reach(before, c)
               /\ \E m \in Names :
                    before.at[<<IF k = Len(t) THEN Start ELSE t[k + 1].dir, m>>] = t[k].dir
    <2>1. CASE k = 1
      <3>1. (IF k = Len(t) THEN Start ELSE t[k + 1].dir) = Top(s)
        <4>1. CASE Len(s) = 0
          BY <1>1, <1>2, <2>1, <4>1 DEF Top
        <4>2. CASE Len(s) # 0
          <5>1. k # Len(t) /\ 1 \in 1..Len(s) /\ t[1 + 1] = s[1] /\ s # <<>>
            BY <1>1, <1>2, <2>1, <4>2
          <5> QED BY <2>1, <5>1 DEF Top
        <4> QED BY <4>1, <4>2
      <3>2. t[k] = f
        BY <1>1, <2>1
      <3> HIDE DEF Top
      <3> QED BY <3>1, <3>2
    <2>2. CASE k # 1
      <3> DEFINE j == k - 1
      <3>1. j \in 1..Len(s) /\ k = j + 1 /\ (k = Len(t) <=> j = Len(s))
        BY <1>1, <1>2, <2>2
      <3>2. t[k] = s[j] /\ (j # Len(s) => t[k + 1] = s[j + 1])
        <4>1. j # Len(s) => j + 1 \in 1..Len(s)
          BY <1>2, <3>1
        <4> QED BY <1>1, <3>1, <4>1
      <3> HIDE DEF j
      <3> QED BY <3>1, <3>2 DEF Chain
    <2> QED BY <2>1, <2>2
  <1> QED BY <1>1, <1>3 DEF Chain, Top, t

LEMMA ChainPop ==
    ASSUME NEW s \in Seq(Frames), s # <<>>, Chain(s)
    PROVE  /\ Chain(Tail(s))
           /\ \E e \in DirOperands : s[1].dir \in Reach(before, e)
           /\ \E n \in Names : before.at[<<Top(Tail(s)), n>>] = s[1].dir
  <1> DEFINE t == Tail(s)
  <1>1. /\ t \in Seq(Frames) /\ Len(t) = Len(s) - 1
        /\ Len(s) = 1 <=> t = <<>>
        /\ \A k \in 1..Len(t) : t[k] = s[k + 1]
    BY PopShape
  <1>2. Len(s) \in Nat /\ Len(s) # 0 /\ Len(t) \in Nat
    BY <1>1, EmptySeq
  <1> HIDE DEF t
  <1>3. Chain(t)
    <2> SUFFICES ASSUME NEW k \in 1..Len(t)
                              PROVE  /\ \E c \in DirOperands : t[k].dir \in Reach(before, c)
                        /\ \E m \in Names :
                    before.at[<<IF k = Len(t) THEN Start ELSE t[k + 1].dir, m>>] = t[k].dir
      BY DEF Chain
    <2>1. k + 1 \in 1..Len(s) /\ (k = Len(t) <=> k + 1 = Len(s))
      BY <1>1, <1>2
    <2>2. t[k] = s[k + 1] /\ (k # Len(t) => t[k + 1] = s[(k + 1) + 1])
      BY <1>1, <1>2
    <2> QED BY <2>1, <2>2 DEF Chain
  <1>4. Top(t) = IF 1 = Len(s) THEN Start ELSE s[1 + 1].dir
    BY <1>1, <1>2 DEF Top
  <1>5. 1 \in 1..Len(s)
    BY <1>2
  <1> QED BY <1>3, <1>4, <1>5 DEF Chain, t

LEMMA ParentIs ==
    ASSUME OneName(fs), NEW e \in Dirs, NEW n \in Names, fs.at[<<e, n>>] \in Dirs
    PROVE  Parent(fs.at[<<e, n>>]) = e
  <1> DEFINE d == fs.at[<<e, n>>]
  <1>1. \A c \in Dirs, m \in Names : fs.at[<<c, m>>] = d => c = e
    <2> SUFFICES ASSUME NEW c \in Dirs, NEW m \in Names, fs.at[<<c, m>>] = d PROVE c = e
      OBVIOUS
    <2>1. <<c, m>> \in Places /\ <<e, n>> \in Places
      BY DEF Places
    <2>2. <<c, m>> = <<e, n>>
      BY <2>1 DEF OneName
    <2> QED BY <2>2
  <1>2. \E c \in Dirs : \E m \in Names : fs.at[<<c, m>>] = d
    OBVIOUS
  <1> HIDE DEF d
  <1> QED BY <1>1, <1>2 DEF Parent, d

\* What leads where is as it was.
LEMMA GoalsStay ==
    ASSUME TInv, Grown, NEW p \in Paths, NEW d \in Dirs
    PROVE  /\ Goal(p) = Place(before, cwd, p, TRUE)
           /\ Place(fs, d, p, TRUE) = Place(before, d, p, TRUE)
           /\ cwd = Start => Goal(p) = Goal0(p)
  <1>1. fs \in Trees /\ before \in Trees /\ cwd \in Dirs
    BY DEF TInv, Typed, TypeOK
  <1>2. \A e \in Dirs : Place(fs, e, p, TRUE) = Place(before, e, p, TRUE)
    BY <1>1, SamePlaces DEF Grown
  <1> QED BY <1>1, <1>2 DEF Goal, Goal0

LEMMA TreesOf ==
    ASSUME TInv
    PROVE  /\ fs \in Trees /\ before \in Trees /\ cwd \in Dirs /\ Start \in Dirs
           /\ fs.at \in [Places -> Nodes \cup {Nothing}]
           /\ before.at \in [Places -> Nodes \cup {Nothing}]
           /\ from \in Paths /\ to \in Paths /\ stack \in Seq(Frames)
           /\ Dirs \cap (Files \cup Links) = {} /\ Files \cap Links = {}
           /\ Nothing \notin Dirs \cup Files \cup Links /\ unread \subseteq Nodes
  BY TreeFields, NodesAssumption DEF TInv, Typed, TypeOK, Nodes

LEMMA GoalTypes ==
    ASSUME TInv, NEW p \in Paths
    PROVE  Goal(p) \subseteq Places /\ \A x, y \in Goal(p) : x = y
  <1>1. fs \in Trees /\ cwd \in Dirs /\ Goal(p) = Place(fs, cwd, p, TRUE)
    BY TreesOf DEF Goal
  <1>2. ASSUME NEW x \in Goal(p), NEW y \in Goal(p) PROVE x = y
    <2>1. x \in Place(fs, cwd, p, TRUE) /\ y \in Place(fs, cwd, p, TRUE)
      BY <1>1
    <2> QED BY <1>1, <2>1, OnePlace
  <1> QED BY <1>1, <1>2, PlaceTypes

\* A name read from the directory in hand.
LEMMA NameGoal ==
    ASSUME TInv, Grown, NEW n \in Names, before.at[<<cwd, n>>] \notin Links
    PROVE  <<n>> \in Paths /\ Goal(<<n>>) = {<<cwd, n>>} /\ <<cwd, n>> \in Places
  <1>1. <<n>> \in Paths /\ Place(before, cwd, <<n>>, TRUE) = {<<cwd, n>>}
    BY TreesOf, ShortPlace
  <1>2. <<cwd, n>> \in Places
    BY TreesOf DEF Places
  <1> DEFINE p == <<n>>
  <1>3. p \in Paths
    BY <1>1
  <1> HIDE DEF p
  <1>4. Goal(p) = Place(before, cwd, p, TRUE)
    BY <1>3, TreesOf, GoalsStay
  <1> QED BY <1>1, <1>2, <1>4 DEF p

\* What is copied from a directory is taken by name and goes by name.
LEMMA HandName ==
    ASSUME TInv, Ran("cp"), Grown, Walk, Hand, pc \in Copying, stack # <<>>
    PROVE  \E n \in Names :
              /\ from = <<n>> /\ to = Join(Last, <<n>>)
              /\ before.at[<<cwd, n>>] \in Files \cup {Nothing}
              /\ Goal(from) = {<<cwd, n>>} /\ Goal(to) = Goal0(Join(Last, <<n>>))
  <1>1. PICK n \in Names : /\ from = <<n>> /\ to = Join(Last, <<n>>)
                           /\ fs.at[<<cwd, n>>] \in Files
    BY DEF Hand
  <1>2. PICK e \in DirOperands : cwd \in Reach(before, e)
    BY TreesOf, ChainPop DEF Walk, Top
  <1>3. before.at[<<cwd, n>>] \in Files \cup {Nothing}
    <2>1. <<cwd, n>> \in Places
      BY TreesOf DEF Places
    <2> QED BY <1>1, <2>1 DEF Grown, MoreFiles
  <1>4. Goal(from) = {<<cwd, n>>}
    BY <1>1, <1>3, TreesOf, NameGoal
  <1>5. to # <<>> /\ Head(to) = "/"
    <2>1. Last # <<>> /\ Head(Last) = "/" /\ argv # <<>>
      BY <1>2 DEF Ran, Anchored
    <2>2. Last \in Paths /\ <<n>> \in Paths /\ n # "/"
      BY <2>1, ArgvTypes, NodesAssumption DEF TInv, Typed, Paths
    <2>3. to = Last \o <<n>>
      BY <1>1, <2>2 DEF Join
    <2> DEFINE t == <<n>>
    <2> HIDE DEF t
    <2>4. Last \o t # <<>> /\ Head(Last \o t) = Head(Last)
      BY <2>1, <2>2 DEF Paths, t
    <2> QED BY <2>1, <2>3, <2>4 DEF t
  <1>6. Goal(to) = Goal0(to)
    <2>1. Goal(to) = Place(before, cwd, to, TRUE)
      BY TreesOf, GoalsStay
    <2>2. Place(before, cwd, to, TRUE) = Goal0(to)
      BY <1>5, TreesOf, RootedPlace DEF Goal0
    <2> QED BY <2>1, <2>2
  <1> QED BY <1>1, <1>3, <1>4, <1>6

\* What is in hand is one of the copies.
LEMMA HandCopies ==
    ASSUME TInv, Ran("cp"), Grown, Walk, Hand, pc \in Copying,
           NEW s \in Goal(from), fs.at[s] # Nothing, NEW y \in Goal(to)
    PROVE  <<s, y>> \in Copies
  <1>0. /\ fs \in Trees /\ before \in Trees /\ cwd \in Dirs /\ Start \in Dirs
        /\ fs.at \in [Places -> Nodes \cup {Nothing}]
        /\ from \in Paths /\ to \in Paths /\ stack \in Seq(Frames)
        /\ Files \cap Links = {}
        /\ argc = 3 \/ (argc > 3 /\ arg \in First..(Len(argv) - 1))
    BY TreesOf DEF TInv, Labelled
  <1>1. CASE stack # <<>>
    <2>1. PICK n \in Names :
              /\ from = <<n>> /\ to = Join(Last, <<n>>)
              /\ before.at[<<cwd, n>>] \in Files \cup {Nothing}
              /\ Goal(from) = {<<cwd, n>>} /\ Goal(to) = Goal0(Join(Last, <<n>>))
      BY <1>1, HandName
    <2>2. s = <<cwd, n>>
      BY <2>1
    <2>3. PICK e \in DirOperands : cwd \in Reach(before, e)
      BY <1>0, <1>1, ChainPop DEF Walk, Top
    <2>4. s \in Below(e)
      BY <2>1, <2>2, <2>3 DEF Below
    <2>5. y \in Goal0(Join(Last, <<s[2]>>))
      BY <2>1, <2>2
    <2>6. argc # 3
      BY <2>3 DEF DirOperands
    <2>7. <<s, y>> \in TreeCopies(e)
      BY <2>4, <2>5 DEF TreeCopies, CopiesFrom
    <2>8. PICK p \in Operands : e \in DirsOf(p)
      BY <2>3, <2>6 DEF DirOperands
    <2>9. <<s, y>> \in OperandCopies(p)
      BY <2>7, <2>8 DEF OperandCopies
    <2> QED BY <2>6, <2>8, <2>9 DEF Copies
  <1>2. CASE stack = <<>>
    <2>1. Goal(from) = Goal0(from) /\ Goal(to) = Goal0(to)
      BY <1>0, <1>2, GoalsStay DEF Walk, Top
    <2>2. CASE argc = 3
      BY <1>2, <2>1, <2>2 DEF Hand, Copies
    <2>3. CASE argc # 3
      <3>1. from = argv[arg] /\ to = Join(Last, argv[arg]) /\ before.at[s] \notin Dirs
        BY <1>2, <2>1, <2>3 DEF Hand
      <3>2. argv[arg] \in Operands
        BY <1>0, <2>3 DEF Operands
      <3> DEFINE c == <<s, y>>
      <3>3. c \in Goal0(argv[arg]) \X Goal0(Join(Last, argv[arg])) /\ c[1] = s
        BY <2>1, <3>1
      <3> HIDE DEF c
      <3>4. c \in OperandCopies(argv[arg])
        BY <3>1, <3>3 DEF OperandCopies
      <3> QED BY <2>3, <3>2, <3>4 DEF Copies, c
    <2> QED BY <2>2, <2>3
  <1> QED BY <1>1, <1>2

\* and one that is due, if its source can be read.
LEMMA HandDue ==
    ASSUME TInv, Ran("cp"), Grown, Walk, Hand, pc \in Copying,
           NEW s \in Goal(from), fs.at[s] # Nothing, NEW y \in Goal(to)
    PROVE  <<s, y>> \in Due /\ (fs.at[s] \notin unread => y \in Targets)
  <1>1. <<s, y>> \in Copies
    BY HandCopies
  <1>2. s \in Places
    BY TreesOf, PlaceTypes DEF Goal
  <1>3. before.at[s] = Nothing => \E e \in Copies : e[2] = s
    BY <1>2 DEF Grown, Targets, Due
  <1>4. <<s, y>> \in Due
    BY <1>1, <1>3 DEF Due
  <1>5. fs.at[s] \notin unread => before.at[s] \notin unread
    <2>1. before.at[s] = fs.at[s] \/ before.at[s] = Nothing
      BY <1>2 DEF Grown, MoreFiles
    <2>2. Nothing \notin unread
      BY TreesOf DEF Nodes
    <2> QED BY <2>1, <2>2
  <1> QED BY <1>4, <1>5 DEF Targets

LEMMA TextWritten ==
    ASSUME TInv, Grown, UNCHANGED <<argv, before, unread>>,
           NEW x \in Places, x \in Targets,
           fs'.at = fs.at, fs'.sym = fs.sym,
           \A l \in Files : fs'.text[l] # fs.text[l] => l = fs.at[x]
    PROVE  Grown'
  <1>1. Targets' = Targets
    BY CpStays
  <1>2. ASSUME NEW y \in Places, before.at[y] \in Files,
               fs'.text[before.at[y]] # before.text[before.at[y]]
        PROVE  before.at[y] \in NodesAt(before, Targets)
    <2>1. CASE fs'.text[before.at[y]] = fs.text[before.at[y]]
      BY <1>2, <2>1 DEF Grown
    <2>2. CASE before.at[y] = fs.at[x]
      <3>1. before.at[x] = fs.at[x]
        BY <2>2 DEF Grown
      <3>2. before.at[y] # Nothing
        BY <1>2, TreesOf
      <3> QED BY <2>2, <3>1, <3>2 DEF NodesAt
    <2> QED BY <1>2, <2>1, <2>2
  <1> QED BY <1>1, <1>2 DEF Grown, NodesAt

LEMMA FileMade ==
    ASSUME TInv, Grown, UNCHANGED <<argv, before, unread>>,
           NEW x \in Places, x \in Targets, fs.at[x] = Nothing,
           NEW m \in Files, ~ InTree(m),
           fs'.at = [fs.at EXCEPT ![x] = m], fs'.sym = fs.sym,
           \A l \in Files : fs'.text[l] # fs.text[l] => l = m
    PROVE  Grown'
  <1>0. /\ fs.at \in [Places -> Nodes \cup {Nothing}]
        /\ Nothing \notin Files /\ \A z \in Places : fs.at[z] # m
    BY TreesOf DEF InTree
  <1>1. Targets' = Targets
    BY CpStays
  <1>2. before.at[x] = Nothing
    BY <1>0 DEF Grown, MoreFiles
  <1>3. \A z \in Places : before.at[z] # m
    <2> SUFFICES ASSUME NEW z \in Places, before.at[z] = m PROVE FALSE
      OBVIOUS
    <2>1. fs.at[z] = m
      BY <1>0 DEF Grown, MoreFiles
    <2> QED BY <1>0, <2>1
  <1>4. MoreFiles(before.at, fs'.at)
    BY <1>0, <1>2 DEF Grown, MoreFiles
  <1>5. ASSUME NEW y \in Places, fs'.at[y] # before.at[y]
        PROVE  /\ \A z \in Places :
                    before.at[z] # fs'.at[y] /\ (z # y => fs'.at[z] # fs'.at[y])
               /\ y \in Targets
    <2>1. CASE y = x
      BY <1>0, <1>3, <2>1
    <2>2. CASE y # x
      <3>1. fs'.at[y] = fs.at[y] /\ fs.at[y] # m
        BY <1>0, <2>2
      <3> QED BY <1>0, <1>5, <3>1 DEF Grown
    <2> QED BY <2>1, <2>2
  <1>6. \A y \in Places : before.at[y] \in Files
            /\ fs'.text[before.at[y]] # before.text[before.at[y]] =>
          before.at[y] \in NodesAt(before, Targets)
    BY <1>3 DEF Grown
  <1> QED BY <1>1, <1>4, <1>5, <1>6 DEF Grown, NodesAt

LEMMA RanBefore ==
    ASSUME UNCHANGED <<tool, argv, before, unread, barred>>,
           opened \in Nat, opened' \in {opened, opened + 1}, Ran("cp")'
    PROVE  Ran("cp")
  <1>1. Anchored' = Anchored
    BY CpStays DEF Anchored, Operands, Goal0, argc, Last, First, Option
  <1>2. opened' < OpenMax => opened < OpenMax
    BY LimitsAssumption
  <1> QED BY <1>1, <1>2 DEF Ran

LEMMA GrownStays ==
    ASSUME Grown, UNCHANGED <<fs, argv, before, unread>>
    PROVE  Grown'
  BY CpStays DEF Grown, MoreFiles, NodesAt

LEMMA WalkStays ==
    ASSUME Walk, UNCHANGED <<argv, before, unread, stack, cwd>>,
           pc' \notin {"back", "enter"}
    PROVE  Walk'
  BY CpStays DEF Walk

\* The last stat of an operand of cp tells what was there when cp began.
LEMMA CpOperandStep ==
    ASSUME TInv, TInv', Grown, Walk, CpOperand
    PROVE  Grown' /\ Walk' /\ Hand'
  <1>1. /\ stack = <<>> /\ cwd = Start /\ argc # 3
        /\ UNCHANGED <<fs, argv, before, unread, stack, cwd, arg>>
        /\ from' = argv[arg] /\ pc' \in {"fopen", "enter", "failed"}
        /\ st' \in Stat(argv[arg])
        /\ pc' = "fopen" => st' = "reg" /\ to' = Join(Last, argv[arg])
    BY DEF CpOperand, At, given, command, TInv, Labelled, Walk, Top
  <1>2. argv[arg] \in Paths
    <2>1. Len(argv) \in Nat /\ First \in 1..2 /\ arg \in First..(Len(argv) - 1)
      BY ArgvTypes DEF CpOperand, At, TInv, Typed, Labelled
    <2>2. arg \in 1..Len(argv)
      BY <2>1
    <2> QED BY <2>2, ArgvTypes DEF TInv, Typed
  <1>3. Grown'
    BY <1>1, GrownStays
  <1>4. Walk'
    BY <1>1, CpStays DEF Walk
  <1>5. ASSUME pc' = "fopen", NEW s \in Goal0(argv[arg])
        PROVE  before.at[s] \notin Dirs
    <2>1. Goal(argv[arg]) = Goal0(argv[arg]) /\ s \in Places
      BY <1>1, <1>2, GoalsStay, TreesOf, PlaceTypes DEF Goal0
    <2>2. ASSUME NEW y \in Goal(argv[arg]) PROVE y = s
      <3>1. y \in Place(fs, cwd, argv[arg], TRUE) /\ s \in Place(fs, cwd, argv[arg], TRUE)
        BY <2>1 DEF Goal
      <3> QED BY <1>2, <3>1, TreesOf, OnePlace
    <2>3. fs.at[s] \notin Dirs
      <3>1. CASE Found(argv[arg]) = {}
        BY <2>1, <3>1, TreesOf DEF Found, NodesAt
      <3>2. CASE Found(argv[arg]) # {}
        <4>1. PICK n \in Found(argv[arg]) : st' = KindOf(n)
          BY <1>1, <3>2 DEF Stat
        <4>2. n = fs.at[s] /\ KindOf(n) = "reg"
          BY <1>1, <1>5, <2>2, <4>1 DEF Found, NodesAt
        <4> QED BY <4>2 DEF KindOf
      <3> QED BY <3>1, <3>2
    <2> QED BY <2>1, <2>3, TreesOf DEF Grown, MoreFiles
  <1>6. Hand'
    BY <1>1, <1>5, CpStays DEF Hand, Copying
  <1> QED BY <1>3, <1>4, <1>6

\* Only what can be read is copied, to where it is due.
LEMMA OpenStep ==
    ASSUME TInv, TInv', Ran("cp"), Grown, Walk, Hand, Open
    PROVE  Grown' /\ Walk' /\ Hand'
  <1>1. /\ UNCHANGED <<fs, argv, before, unread, stack, cwd, arg, from, to>>
        /\ pc \in Copying /\ pc' \in {"failed", "trunc"}
        /\ pc' = "trunc" => Found(from) \ unread # {}
    BY DEF Open, given, command, Copying
  <1>2. Grown' /\ Walk'
    BY <1>1, GrownStays, WalkStays
  <1>3. ASSUME pc' = "trunc" PROVE Goal(to) \subseteq Targets
    <2>1. PICK s \in Goal(from) : fs.at[s] # Nothing /\ fs.at[s] \notin unread
      BY <1>1, <1>3 DEF Found, NodesAt
    <2> QED BY <1>1, <2>1, HandDue
  <1>4. Goal(to)' = Goal(to)
    BY <1>1 DEF Goal
  <1>5. Hand'
    BY <1>1, <1>3, <1>4, CpStays DEF Hand, Copying
  <1> QED BY <1>2, <1>5

\* Emptying or making the target, or filling it.
LEMMA WriteStep ==
    ASSUME TInv, TInv', Grown, Walk, Hand, Truncate \/ Copy
    PROVE  Grown' /\ Walk' /\ Hand'
  <1>1. /\ UNCHANGED <<argv, before, unread, stack, cwd, from, to>>
        /\ pc \in {"trunc", "copy"} /\ pc' \in {"copy", "loop", "ok", "operand"}
        /\ pc' = "copy" => UNCHANGED arg
    BY DEF Truncate, Copy, given, command
  <1>2. Goal(to) \subseteq Places /\ Goal(to) \subseteq Targets
    BY <1>1, TreesOf, PlaceTypes DEF Goal, Hand
  <1>3. Grown'
    <2>1. CASE Copy
      <3>1. PICK x \in Goal(to) : \E t : fs' = [fs EXCEPT !.text[fs.at[x]] = t]
        BY <2>1 DEF Copy
      <3>2. /\ fs'.at = fs.at /\ fs'.sym = fs.sym
            /\ \A l \in Files : fs'.text[l] # fs.text[l] => l = fs.at[x]
        BY <3>1, TreesOf DEF Trees
      <3> QED BY <1>1, <1>2, <3>2, TextWritten
    <2>2. CASE Truncate
      <3>1. PICK x \in Goal(to) :
              \/ /\ fs.at[x] \in Files \ locked
                 /\ fs' = [fs EXCEPT !.text[fs.at[x]] = Empty]
              \/ /\ fs.at[x] = Nothing /\ x[1] \notin locked
                 /\ Spare(Files) # {}
                 /\ fs' = [fs EXCEPT !.at[x] = Made(Files), !.text[Made(Files)] = Empty]
        BY <2>2 DEF Truncate
      <3>2. CASE fs' = [fs EXCEPT !.text[fs.at[x]] = Empty]
        <4>1. /\ fs'.at = fs.at /\ fs'.sym = fs.sym
              /\ \A l \in Files : fs'.text[l] # fs.text[l] => l = fs.at[x]
          BY <3>2, TreesOf DEF Trees
        <4> QED BY <1>1, <1>2, <4>1, TextWritten
      <3>3. CASE /\ fs.at[x] = Nothing /\ Spare(Files) # {}
                 /\ fs' = [fs EXCEPT !.at[x] = Made(Files), !.text[Made(Files)] = Empty]
        <4>1. Made(Files) \in Files /\ ~ InTree(Made(Files))
          BY <3>3, MadeNew
        <4>2. /\ fs'.at = [fs.at EXCEPT ![x] = Made(Files)] /\ fs'.sym = fs.sym
              /\ \A l \in Files : fs'.text[l] # fs.text[l] => l = Made(Files)
          BY <3>3, TreesOf, SMTT(30) DEF Trees
        <4> QED BY <1>1, <1>2, <3>3, <4>1, <4>2, FileMade, SMTT(30)
      <3> QED BY <3>1, <3>2, <3>3, SMTT(30)
    <2> QED BY <2>1, <2>2
  <1>4. Walk'
    BY <1>1, WalkStays
  <1>5. Hand'
    <2> SUFFICES ASSUME pc' = "copy" PROVE Hand'
      BY <1>1 DEF Hand, Copying
    <2>1. Goal(to)' \subseteq Targets'
      <3>1. Goal(to) = Place(before, cwd, to, TRUE)
        BY TreesOf, GoalsStay
      <3>2. Goal(to)' = Place(before, cwd, to, TRUE)
        <4>1. fs' \in Trees /\ before \in Trees /\ cwd \in Dirs /\ to \in Paths
          BY TreesOf DEF TInv, Typed, TypeOK
        <4>2. fs'.sym = before.sym /\ MoreFiles(before.at, fs'.at)
          BY <1>1, <1>3 DEF Grown
        <4>3. Place(fs', cwd, to, TRUE) = Place(before, cwd, to, TRUE)
          BY <4>1, <4>2, SamePlaces
        <4> QED BY <1>1, <4>3 DEF Goal
      <3> QED BY <1>1, <1>2, <3>1, <3>2, CpStays
    <2>2. ASSUME NEW n \in Names, fs.at[<<cwd, n>>] \in Files
          PROVE  fs'.at[<<cwd, n>>] \in Files
      <3>1. <<cwd, n>> \in Places
        BY TreesOf DEF Places
      <3>2. CASE before.at[<<cwd, n>>] = fs.at[<<cwd, n>>]
        <4>1. before.at[<<cwd, n>>] # Nothing
          BY <2>2, <3>2, TreesOf
        <4> QED BY <1>1, <1>3, <2>2, <3>1, <3>2, <4>1 DEF Grown, MoreFiles
      <3>3. CASE fs'.at[<<cwd, n>>] = fs.at[<<cwd, n>>]
        BY <2>2, <3>3
      <3>4. \A y \in Places : fs.at[y] # Nothing => fs'.at[y] = fs.at[y]
        <4>1. CASE Copy
          BY <4>1, TreesOf DEF Copy, Trees
        <4>2. CASE Truncate
          <5>1. PICK x \in Goal(to) :
                  \/ fs' = [fs EXCEPT !.text[fs.at[x]] = Empty]
                  \/ /\ fs.at[x] = Nothing
                     /\ fs' = [fs EXCEPT !.at[x] = Made(Files), !.text[Made(Files)] = Empty]
            BY <4>2 DEF Truncate
          <5>2. CASE fs' = [fs EXCEPT !.text[fs.at[x]] = Empty]
            <6>1. fs'.at = fs.at
              BY <5>2, TreesOf DEF Trees
            <6> QED BY <6>1
          <5>3. CASE /\ fs.at[x] = Nothing
                     /\ fs' = [fs EXCEPT !.at[x] = Made(Files), !.text[Made(Files)] = Empty]
            <6>1. fs'.at = [fs.at EXCEPT ![x] = Made(Files)]
              BY <5>3, TreesOf, SMTT(30) DEF Trees
            <6> QED BY <5>3, <6>1, TreesOf
          <5> QED BY <5>1, <5>2, <5>3, SMTT(30)
        <4> QED BY <4>1, <4>2
      <3> QED BY <2>2, <3>1, <3>4, TreesOf
    <2>3. /\ pc \in Copying /\ Last' = Last /\ argc' = argc
          /\ \A p : Goal0(p)' = Goal0(p)
      BY <1>1, CpStays DEF Copying
    <2> QED BY <1>1, <2>1, <2>2, <2>3 DEF Hand, Copying
  <1> QED BY <1>3, <1>4, <1>5

\* What dir_to_dir is called with is a directory, or cannot be opened.
LEMMA EnterStep ==
    ASSUME TInv, TInv', Ran("cp"), Grown, Walk, Enter
    PROVE  Grown' /\ Walk' /\ Hand'
  <1>1. PICK d \in Found(from) :
          /\ CanOpen(d)
          /\ stack' = <<[dir |-> d, seen |-> {}, must |-> Entries(d)]>> \o stack
          /\ cwd' = IF d \in barred THEN cwd ELSE d
    BY DEF Enter
  <1>2. /\ UNCHANGED <<fs, argv, before, unread, arg, from>>
        /\ pc = "enter" /\ pc' = "loop" /\ d \in Dirs /\ d \notin barred
    BY <1>1 DEF Enter, given, command, CanOpen, Ran
  <1>3. Grown'
    BY <1>2, GrownStays
  <1> DEFINE f == [dir |-> d, seen |-> {}, must |-> Entries(d)]
  <1>4. f \in Frames /\ f.dir = d
    BY <1>2 DEF Frames, Entries
  <1>5. PICK s \in Goal(from) : fs.at[s] = d
    BY DEF Found, NodesAt
  <1>6. s \in Places /\ before.at[s] = d
    <2>1. s \in Places
      BY <1>5, TreesOf, PlaceTypes DEF Goal
    <2> QED BY <1>2, <1>5, <2>1, TreesOf DEF Grown, MoreFiles
  <1>7. \E e \in DirOperands : d \in Reach(before, e)
    <2>1. CASE stack = <<>>
      <3>1. from = argv[arg] /\ argc # 3 /\ arg \in First..(Len(argv) - 1)
        BY <1>2, <2>1 DEF Walk, TInv, Labelled, Walking
      <3>2. Goal(from) = Goal0(from)
        BY <2>1, TreesOf, GoalsStay DEF Walk, Top
      <3>3. d \in DirsOf(argv[arg])
        BY <1>2, <1>5, <1>6, <3>1, <3>2, TreesOf DEF DirsOf, NodesAt
      <3>4. argv[arg] \in Operands
        BY <3>1 DEF Operands
      <3>5. d \in DirOperands
        BY <3>1, <3>3, <3>4 DEF DirOperands
      <3> QED BY <1>2, <3>5, TreesOf, ReachClosed
    <2>2. CASE stack # <<>>
      <3>1. PICK n \in Names : from = <<n>> /\ before.at[<<cwd, n>>] \in Dirs
        BY <1>2, <2>2 DEF Walk
      <3>2. d = before.at[<<cwd, n>>]
        BY <1>5, <1>6, <3>1, TreesOf, NameGoal
      <3>3. PICK e \in DirOperands : cwd \in Reach(before, e)
        BY <2>2, TreesOf, ChainPop DEF Walk, Top
      <3>4. e \in Dirs
        BY <3>3 DEF DirOperands, DirsOf
      <3> QED BY <3>1, <3>2, <3>3, <3>4, TreesOf, ReachClosed
    <2> QED BY <2>1, <2>2
  <1>8. \E n \in Names : before.at[<<Top(stack), n>>] = d
    <2>1. CASE stack = <<>>
      <3>1. from = argv[arg] /\ argc # 3 /\ arg \in First..(Len(argv) - 1)
        BY <1>2, <2>1 DEF Walk, TInv, Labelled, Walking
      <3>2. Goal(from) = Goal0(from)
        BY <2>1, TreesOf, GoalsStay DEF Walk, Top
      <3>3. argv[arg] \in Operands /\ DirOperands # {}
        BY <1>7, <3>1 DEF Operands
      <3>4. s[1] = Start
        BY <1>5, <3>1, <3>2, <3>3 DEF Ran, Anchored
      <3>5. s = <<s[1], s[2]>> /\ s[2] \in Names
        BY <1>6 DEF Places
      <3> QED BY <1>6, <2>1, <3>4, <3>5 DEF Top
    <2>2. CASE stack # <<>>
      <3>1. PICK n \in Names : from = <<n>> /\ before.at[<<cwd, n>>] \in Dirs
        BY <1>2, <2>2 DEF Walk
      <3>2. d = before.at[<<cwd, n>>]
        BY <1>5, <1>6, <3>1, TreesOf, NameGoal
      <3> QED BY <3>1, <3>2 DEF Walk
    <2> QED BY <2>1, <2>2
  <1>9. Chain(stack') /\ Top(stack') = d
    <2> HIDE DEF f
    <2>1. stack' = <<f>> \o stack
      BY <1>1 DEF f
    <2> QED BY <1>4, <1>7, <1>8, <2>1, TreesOf, ChainPush DEF Walk
  <1>10. Walk'
    BY <1>1, <1>2, <1>9, CpStays DEF Walk
  <1>11. Hand'
    BY <1>2 DEF Hand, Copying
  <1> QED BY <1>3, <1>10, <1>11

\* With directories that can be opened none below an operand fails.
LEMMA EnterFailsStep ==
    ASSUME TInv, TInv', Ran("cp"), Grown, Walk, EnterFails
    PROVE  Grown' /\ Walk' /\ Hand'
  <1>1. /\ UNCHANGED <<fs, argv, before, unread, stack, cwd, arg, from>>
        /\ pc = "enter" /\ pc' = "back"
    BY DEF EnterFails, End, given, command
  <1>2. Grown' /\ Hand'
    BY <1>1, GrownStays DEF Hand, Copying
  <1>3. stack = <<>>
    <2> SUFFICES ASSUME stack # <<>> PROVE FALSE
      OBVIOUS
    <2>1. PICK n \in Names : from = <<n>> /\ before.at[<<cwd, n>>] \in Dirs
      BY <1>1 DEF Walk
    <2> DEFINE d == before.at[<<cwd, n>>]
    <2>2. Goal(from) = {<<cwd, n>>} /\ <<cwd, n>> \in Places
      BY <2>1, TreesOf, NameGoal
    <2>3. fs.at[<<cwd, n>>] = d /\ d # Nothing
      BY <2>1, <2>2, TreesOf DEF Grown, MoreFiles
    <2>4. d \in Found(from)
      BY <2>2, <2>3 DEF Found, NodesAt
    <2>5. CanOpen(d)
      BY <2>1 DEF CanOpen, Ran
    <2> HIDE DEF d
    <2> QED BY <2>4, <2>5 DEF EnterFails
  <1>4. Walk'
    BY <1>1, <1>3, CpStays DEF Walk
  <1> QED BY <1>2, <1>4

LEMMA ReadStep ==
    ASSUME TInv, TInv', Ran("cp"), Grown, Walk, NEW n \in Names, Read(n)
    PROVE  Grown' /\ Walk' /\ Hand'
  <1>1. /\ UNCHANGED <<fs, argv, before, unread, cwd, arg>>
        /\ pc = "loop" /\ stack # <<>> /\ pc' \in {"fopen", "enter", "loop"}
        /\ stack' = <<[Frame EXCEPT !.seen = @ \cup {n}]>> \o Tail(stack)
        /\ from' = <<n>>
        /\ pc' = "fopen" =>
              fs.at[<<Frame.dir, n>>] \in Files /\ to' = Join(Last, <<n>>)
        /\ pc' = "enter" => fs.at[<<Frame.dir, n>>] \in Dirs
    BY DEF Read, given, command, TInv, Labelled
  <1> DEFINE f == [Frame EXCEPT !.seen = @ \cup {n}]
  <1>2. Frame = stack[1] /\ Frame \in Frames
    BY <1>1, TreesOf, PopShape, StackTypes DEF Frame
  <1>3. f \in Frames /\ f.dir = stack[1].dir /\ cwd = Frame.dir
    BY <1>1, <1>2 DEF Frames, Walk, Top
  <1>4. Grown'
    BY <1>1, GrownStays
  <1>5. /\ Chain(Tail(stack)) /\ Tail(stack) \in Seq(Frames)
        /\ \E e \in DirOperands : stack[1].dir \in Reach(before, e)
        /\ \E m \in Names : before.at[<<Top(Tail(stack)), m>>] = stack[1].dir
    BY <1>1, TreesOf, ChainPop, PopShape DEF Walk
  <1>6. stack' = <<f>> \o Tail(stack)
    BY <1>1
  <1> HIDE DEF f
  <1>7. Chain(stack') /\ Top(stack') = cwd
    BY <1>2, <1>3, <1>5, <1>6, ChainPush
  <1>8. stack' # <<>>
    BY <1>3, <1>5, <1>6, PushShape
  <1>9. pc' = "enter" => before.at[<<cwd, n>>] \in Dirs
    <2>1. <<cwd, n>> \in Places
      BY TreesOf DEF Places
    <2> QED BY <1>1, <1>3, <2>1, TreesOf DEF Grown, MoreFiles
  <1>10. Walk'
    BY <1>1, <1>7, <1>8, <1>9, CpStays DEF Walk
  <1>11. Hand'
    BY <1>1, <1>3, <1>8, CpStays DEF Hand, Copying
  <1> QED BY <1>4, <1>10, <1>11

\* The way back leads to the directory that is read on.
LEMMA LeaveStep ==
    ASSUME TInv, TInv', Grown, Walk, Leave
    PROVE  Grown' /\ Walk' /\ Hand'
  <1>1. /\ UNCHANGED <<fs, argv, before, unread>>
        /\ pc = "loop" /\ stack # <<>> /\ pc' \in {"operand", "loop"}
        /\ stack' = Tail(stack) /\ cwd' = Parent(cwd)
    BY DEF Leave, given, command, TInv, Labelled
  <1>2. Grown' /\ Hand'
    BY <1>1, GrownStays DEF Hand, Copying
  <1>3. Chain(Tail(stack)) /\ Tail(stack) \in Seq(Frames)
    BY <1>1, TreesOf, ChainPop, PopShape DEF Walk
  <1>4. PICK m \in Names : before.at[<<Top(Tail(stack)), m>>] = stack[1].dir
    BY <1>1, TreesOf, ChainPop DEF Walk
  <1> DEFINE e == Top(Tail(stack))
  <1>5. e \in Dirs
    <2>1. CASE Tail(stack) = <<>>
      BY <2>1, TreesOf DEF Top
    <2>2. CASE Tail(stack) # <<>>
      <3>1. Head(Tail(stack)) = Tail(stack)[1] /\ Head(Tail(stack)) \in Frames
        BY <1>3, <2>2, PopShape, StackTypes
      <3> QED BY <2>2, <3>1 DEF Top, Frames
    <2> QED BY <2>1, <2>2
  <1>6. cwd = stack[1].dir /\ cwd \in Dirs
    BY <1>1, TreesOf DEF Walk, Top
  <1> HIDE DEF e
  <1>7. <<e, m>> \in Places /\ before.at[<<e, m>>] = cwd
    BY <1>4, <1>5, <1>6 DEF Places, e
  <1>8. fs.at[<<e, m>>] = cwd
    BY <1>6, <1>7, TreesOf DEF Grown, MoreFiles
  <1>9. Parent(cwd) = e
    BY <1>5, <1>6, <1>8, ParentIs DEF TInv
  <1>10. Walk'
    BY <1>1, <1>3, <1>9, CpStays DEF Walk, e
  <1> QED BY <1>2, <1>10

LEMMA BackStep ==
    ASSUME TInv, TInv', Grown, Walk, Back
    PROVE  Grown' /\ Walk' /\ Hand'
  <1>1. /\ UNCHANGED <<fs, argv, before, unread, cwd, stack>>
        /\ pc' = "operand"
    BY DEF Back, given, command, Walk
  <1> QED BY <1>1, GrownStays, WalkStays DEF Hand, Copying

LEMMA CpStep ==
    ASSUME TInv, TInv', CpInv, Next
    PROVE  CpInv'
  <1> SUFFICES ASSUME Ran("cp")' PROVE Grown' /\ Walk' /\ Hand'
    BY DEF CpInv
  <1>1. CASE Run
    <2>1. /\ fs' = before' /\ stack' = <<>> /\ cwd' = Start /\ pc' = "main"
      BY <1>1 DEF Run
    <2>2. stack' \in Seq(Frames) /\ Len(stack') = 0
      BY <2>1, EmptySeq
    <2> QED BY <2>1, <2>2 DEF Grown, MoreFiles, Walk, Hand, Copying, Top, Chain
  <1>2. CASE Step
    <2>1. /\ UNCHANGED <<tool, argv, before, unread, barred>>
          /\ opened' \in {opened, opened + 1}
      BY <1>2 DEF Step, Usage, CpFiles, Target, CpOperand, Finished, Open,
              Truncate, TruncateFails, Copy, EnterFails, Enter, Read, Leave, Back, MvFiles,
              MvOperand, MvRefused, Ln, Symlink, GetMask, MkdirOperand, MkdirDone, End,
              command, given
    <2>2. opened \in Nat
      BY LimitsAssumption DEF TInv, Typed, TypeOK
    <2>3. Ran("cp") /\ tool = "cp"
      BY <2>1, <2>2, RanBefore DEF Ran
    <2>4. Grown /\ Walk /\ Hand
      BY <2>3 DEF CpInv
    <2>5. CASE CpFiles
      <3>1. /\ UNCHANGED <<fs, argv, before, unread, stack, cwd>>
            /\ pc = "main" /\ pc' = "fopen" /\ argc = 3
            /\ from' = argv[1] /\ to' = argv[2]
        BY <2>5 DEF CpFiles, At, given, command
      <3>2. stack' = <<>>
        BY <3>1 DEF TInv, Labelled
      <3> QED BY <2>4, <3>1, <3>2, GrownStays, WalkStays, CpStays DEF Hand, Copying
    <2>6. CASE /\ UNCHANGED <<fs, argv, before, unread, stack, cwd>>
               /\ pc' \notin Copying \cup {"back", "enter"}
      BY <2>4, <2>6, GrownStays, WalkStays DEF Hand, Copying
    <2>7. \/ CpFiles \/ CpOperand \/ Open \/ Truncate \/ Copy
          \/ EnterFails \/ Enter \/ (\E n \in Names : Read(n)) \/ Leave \/ Back
          \/ /\ UNCHANGED <<fs, argv, before, unread, stack, cwd>>
             /\ pc' \notin Copying \cup {"back", "enter"}
      BY <1>2, <2>3 DEF Step, Usage, Target, Finished, TruncateFails, MvFiles,
              MvOperand, MvRefused, Ln, Symlink, GetMask, MkdirOperand, MkdirDone, End,
              command, given, At, Copying
    <2> QED BY <2>3, <2>4, <2>5, <2>6, <2>7, CpOperandStep, OpenStep, WriteStep,
               EnterFailsStep, EnterStep, ReadStep, LeaveStep, BackStep, SMTT(30)
  <1> QED BY <1>1, <1>2 DEF Next

LEMMA CpInvariant == Spec => []CpInv
  <1>1. Init => CpInv
    BY DEF Init, CpInv, Ran
  <1>2. TInv /\ TInv' /\ CpInv /\ [Next]_vars => CpInv'
    <2> SUFFICES ASSUME TInv, TInv', CpInv, [Next]_vars PROVE CpInv'
      OBVIOUS
    <2>1. CASE UNCHANGED vars
      <3> SUFFICES ASSUME Ran("cp")' PROVE Grown' /\ Walk' /\ Hand'
        BY DEF CpInv
      <3>1. UNCHANGED <<fs, tool, argv, before, unread, barred, stack, cwd, arg, pc,
                        from, to, opened>>
        BY <2>1 DEF vars, given, command
      <3>2. opened \in Nat
        BY LimitsAssumption DEF TInv, Typed, TypeOK
      <3>3. Grown /\ Walk /\ Hand
        BY <3>1, <3>2, RanBefore DEF CpInv
      <3>4. Goal(to)' = Goal(to)
        BY <3>1 DEF Goal
      <3> QED BY <3>1, <3>3, <3>4, GrownStays, CpStays DEF Walk, Hand
    <2> QED BY <2>1, CpStep
  <1> QED BY <1>1, <1>2, TypesInvariant, PTL DEF Spec

\* Whatever cp is given on whatever tree, wherever it stops, and through whatever
\* directories it goes, it writes to no place but those it is to copy to.
THEOREM CpWrites == Spec => []OnlyTargetsChange
  <1>1. TInv /\ CpInv => OnlyTargetsChange
    <2> SUFFICES ASSUME TInv, Ran("cp"), Grown PROVE OnlyTargetsChange
      BY DEF CpInv, OnlyTargetsChange
    <2>1. DOMAIN fs.at = Places
      BY TreesOf
    <2> QED BY <2>1 DEF Grown, OnlyTargetsChange, Targets
  <1> QED BY <1>1, TypesInvariant, CpInvariant, PTL

\* A copy is done when the target has what the source had, or is in hand.
Done(c) ==
    before.at[c[1]] \in Files =>
        \/ pc = "copy" /\ c \in Goal(from) \X Goal(to)
        \/ /\ fs.at[c[2]] \in Files
           /\ Sound(before.at[c[1]], fs.at[c[2]]) =>
                 fs.text[fs.at[c[2]]] = before.text[before.at[c[1]]]

AllDone(C) == \A c \in C : Done(c)

PlaceDone(x) ==
    /\ before.at[x] \in Files => AllDone(CopiesFrom(x))
    /\ before.at[x] \in Dirs => AllDone(TreeCopies(before.at[x]))

\* A name seen in directory stack[k].dir: in hand, being walked, or done.
Handled(k, n) ==
    \/ k = 1 /\ pc \in Copying \cup {"enter"} /\ from = <<n>>
    \/ k > 1 /\ before.at[<<stack[k].dir, n>>] = stack[k - 1].dir
    \/ PlaceDone(<<stack[k].dir, n>>)

\* Nothing there was in a directory is missed.
Seen(k) ==
    /\ \A n \in Names : before.at[<<stack[k].dir, n>>] # Nothing => n \in stack[k].must
    /\ \A n \in stack[k].seen : Handled(k, n)

\* The directories being walked.
Walked ==
    pc \in Copying \cup Walking =>
        /\ stack # <<>> => stack[Len(stack)].dir \in DirsOf(argv[arg])
        /\ \A k \in 1..Len(stack) : Seen(k)

\* The operands.
Served ==
    /\ pc \in Copying \cup Walking \cup {"operand"} /\ argc > 3 =>
          \A k \in First..(arg - 1) : AllDone(OperandCopies(argv[k]))
    /\ pc = "enter" /\ stack = <<>> =>
          \A s \in Goal0(argv[arg]) : before.at[s] \in Dirs \cup {Nothing}
    /\ pc = "back" => \A s \in Goal0(argv[arg]) : before.at[s] = Nothing
    /\ pc = "ok" => AllDone(Copies)

\* The pair in hand.
Paired ==
    /\ pc \in {"trunc", "copy"} =>
          Goal(from) \X Goal(to) \subseteq Due /\ src \in NodesAt(fs, Goal(from))
    /\ pc = "copy" => \A y \in Goal(to) : fs.at[y] \in Files

ArriveInv == Ran("cp") /\ Apart => Walked /\ Served /\ Paired

LEMMA ReachParts ==
    ASSUME NEW f \in Trees, NEW d \in Dirs
    PROVE  /\ \A c \in Reach(f, d) : Reach(f, c) \subseteq Reach(f, d)
           /\ \A c \in Reach(f, d) :
                 \/ c = d
                 \/ \E n \in Names : f.at[<<d, n>>] \in Dirs /\ c \in Reach(f, f.at[<<d, n>>])
  <1>1. ASSUME NEW c \in Reach(f, d), NEW b \in Reach(f, c) PROVE b \in Reach(f, d)
    <2> SUFFICES ASSUME NEW S \in SUBSET Dirs, d \in S,
                        \A x \in S \X Names : f.at[x] \in Dirs => f.at[x] \in S
                 PROVE  b \in S
      BY <1>1 DEF Reach
    <2>1. c \in S
      BY DEF Reach
    <2> QED BY <2>1 DEF Reach
  <1>2. ASSUME NEW c \in Reach(f, d)
        PROVE  \/ c = d
               \/ \E n \in Names : f.at[<<d, n>>] \in Dirs /\ c \in Reach(f, f.at[<<d, n>>])
    <2> DEFINE S == {b \in Dirs : \/ b = d
                                  \/ \E n \in Names : /\ f.at[<<d, n>>] \in Dirs
                                                      /\ b \in Reach(f, f.at[<<d, n>>])}
    <2>1. S \in SUBSET Dirs /\ d \in S
      OBVIOUS
    <2>2. ASSUME NEW x \in S \X Names, f.at[x] \in Dirs PROVE f.at[x] \in S
      <3>1. PICK b \in S, m \in Names : x = <<b, m>>
        OBVIOUS
      <3>2. CASE b = d
        <4>1. f.at[x] \in Reach(f, f.at[x])
          BY <2>2, ReachClosed
        <4> QED BY <2>2, <3>1, <3>2, <4>1
      <3>3. CASE \E n \in Names : f.at[<<d, n>>] \in Dirs /\ b \in Reach(f, f.at[<<d, n>>])
        <4>1. PICK n \in Names : f.at[<<d, n>>] \in Dirs /\ b \in Reach(f, f.at[<<d, n>>])
          BY <3>3
        <4>2. f.at[x] \in Reach(f, f.at[<<d, n>>])
          BY <2>2, <3>1, <4>1, ReachClosed
        <4> QED BY <2>2, <4>1, <4>2
      <3> QED BY <3>1, <3>2, <3>3
    <2> HIDE DEF S
    <2>3. c \in S
      BY <2>1, <2>2 DEF Reach
    <2> QED BY <2>3 DEF S
  <1> QED BY <1>1, <1>2

LEMMA CopyPlaces ==
    ASSUME TInv
    PROVE  \A c \in Copies : c = <<c[1], c[2]>> /\ c[1] \in Places /\ c[2] \in Places
  <1> DEFINE P == Places \X Places
  <1>1. /\ before \in Trees /\ Start \in Dirs /\ argv \in Seq(Paths)
        /\ \A p \in Paths : Goal0(p) \subseteq Places
    BY TreesOf, PlaceTypes DEF Goal0, TInv, Typed
  <1>2. CASE argc = 3
    <2>1. Len(argv) = 2
      <3>1. \A m \in Nat : m + 1 = 3 => m = 2
        OBVIOUS
      <3> QED BY <1>1, <1>2, <3>1, ArgvTypes DEF argc
    <2>2. argv[1] \in Paths /\ argv[2] \in Paths
      BY <1>1, <2>1, ArgvTypes
    <2>3. Copies \subseteq P
      BY <1>1, <1>2, <2>2 DEF Copies
    <2> QED BY <2>3
  <1>3. CASE argc # 3
    <2>1. ASSUME NEW c \in Copies PROVE c \in P
      <3>1. PICK p \in Operands : c \in OperandCopies(p)
        BY <1>3, <2>1 DEF Copies
      <3>2. PICK k \in First..(Len(argv) - 1) : p = argv[k]
        BY <3>1 DEF Operands
      <3>3. p \in Paths /\ Last \in Paths
        <4>1. First \in 1..2 /\ Len(argv) \in Nat
          BY <1>1, ArgvTypes
        <4>2. k \in 1..Len(argv) /\ argv # <<>>
          BY <3>2, <4>1, EmptySeq
        <4> QED BY <1>1, <3>2, <4>2, ArgvTypes
      <3>4. CASE c \in Goal0(p) \X Goal0(Join(Last, p))
        BY <1>1, <3>3, <3>4, JoinTypes
      <3>5. CASE \E d \in DirsOf(p) : c \in TreeCopies(d)
        <4>1. PICK d \in DirsOf(p) : c \in TreeCopies(d)
          BY <3>5
        <4>2. PICK x \in Below(d) : c \in {x} \X Goal0(Join(Last, <<x[2]>>))
          BY <4>1 DEF TreeCopies, CopiesFrom
        <4>3. d \in Dirs
          BY <4>1 DEF DirsOf
        <4>4. x \in Places /\ x[2] \in Names
          BY <1>1, <4>2, <4>3, ReachClosed DEF Below, Places
        <4>5. <<x[2]>> \in Paths
          BY <4>4 DEF Paths
        <4>6. Join(Last, <<x[2]>>) \in Paths
          BY <3>3, <4>5, JoinTypes
        <4> QED BY <1>1, <4>2, <4>4, <4>6
      <3> QED BY <3>1, <3>4, <3>5 DEF OperandCopies
    <2> QED BY <2>1
  <1> QED BY <1>2, <1>3

\* The copies below an operand, by directory and by name.
LEMMA CopyParts ==
    ASSUME TInv, argc # 3
    PROVE  /\ \A p \in Operands : OperandCopies(p) \subseteq Copies
           /\ \A e \in DirOperands : \A d \in Reach(before, e) : TreeCopies(d) \subseteq Copies
           /\ \A d \in Dirs, n \in Names :
                 before.at[<<d, n>>] \in Files \cup {Nothing} =>
                     CopiesFrom(<<d, n>>) \subseteq TreeCopies(d)
  <1>1. \A p \in Operands : OperandCopies(p) \subseteq Copies
    BY DEF Copies
  <1>2. ASSUME NEW e \in DirOperands, NEW d \in Reach(before, e), NEW c \in TreeCopies(d)
        PROVE  c \in Copies
    <2>1. PICK p \in Operands : e \in DirsOf(p)
      BY DEF DirOperands
    <2>2. e \in Dirs
      BY <2>1 DEF DirsOf
    <2>3. Reach(before, d) \subseteq Reach(before, e)
      BY <2>2, TreesOf, ReachParts
    <2>4. Below(d) \subseteq Below(e)
      BY <2>3 DEF Below
    <2>5. c \in TreeCopies(e)
      BY <2>4 DEF TreeCopies
    <2>6. c \in OperandCopies(p)
      BY <2>1, <2>5 DEF OperandCopies
    <2> QED BY <1>1, <2>1, <2>6
  <1>3. ASSUME NEW d \in Dirs, NEW n \in Names,
               before.at[<<d, n>>] \in Files \cup {Nothing}
        PROVE  CopiesFrom(<<d, n>>) \subseteq TreeCopies(d)
    <2>1. d \in Reach(before, d)
      BY TreesOf, ReachClosed
    <2>2. <<d, n>> \in Below(d)
      BY <1>3, <2>1 DEF Below
    <2> QED BY <2>2 DEF TreeCopies
  <1> QED BY <1>1, <1>2, <1>3

\* What is copied from stays.
LEMMA SourceKept ==
    ASSUME TInv, Grown, Apart, NEW c \in Due
    PROVE  /\ fs.at[c[1]] = before.at[c[1]]
           /\ before.at[c[1]] \in Files =>
                 fs.text[before.at[c[1]]] = before.text[before.at[c[1]]]
  <1>1. c[1] \in Places
    BY CopyPlaces DEF Due
  <1>2. \A y \in Targets : ~ Same(y, c[1])
    BY DEF Apart, Targets
  <1>3. fs.at[c[1]] = before.at[c[1]]
    BY <1>1, <1>2 DEF Grown, Same
  <1>4. before.at[c[1]] \notin NodesAt(before, Targets)
    BY <1>2 DEF NodesAt, Same
  <1> QED BY <1>1, <1>3, <1>4 DEF Grown

\* What is copied to is nowhere else copied to.
LEMMA TargetsApart ==
    ASSUME TInv, Grown, Apart, NEW c \in Due, NEW e \in Due, c # e,
           fs.at[c[2]] # Nothing
    PROVE  fs.at[c[2]] # fs.at[e[2]]
  <1> SUFFICES ASSUME fs.at[c[2]] = fs.at[e[2]] PROVE FALSE
    OBVIOUS
  <1>1. c[2] \in Places /\ e[2] \in Places
    BY CopyPlaces DEF Due
  <1>2. ~ Same(c[2], e[2])
    BY DEF Apart
  <1>3. before.at[c[2]] = fs.at[c[2]] /\ before.at[e[2]] = fs.at[e[2]]
    BY <1>1, <1>2 DEF Grown, Same
  <1> QED BY <1>2, <1>3 DEF Same

\* A path leads to the same place before and after a step of cp.
LEMMA GoalKept ==
    ASSUME TInv, TInv', Grown, Grown', UNCHANGED <<before, cwd, argv>>, NEW p \in Paths
    PROVE  /\ Place(fs', cwd', p, TRUE) = Goal(p)
           /\ \A x, y \in Goal(p) : x = y
           /\ Goal(p) \subseteq Places
  <1>1. Goal(p) = Place(before, cwd, p, TRUE)
    BY TreesOf, GoalsStay
  <1>2. fs' \in Trees /\ before \in Trees /\ cwd \in Dirs /\ cwd' = cwd
    BY TreesOf DEF TInv, Typed, TypeOK
  <1>3. fs'.sym = before.sym /\ MoreFiles(before.at, fs'.at)
    BY DEF Grown
  <1>4. Place(fs', cwd, p, TRUE) = Place(before, cwd, p, TRUE)
    BY <1>2, <1>3, SamePlaces
  <1>5. ASSUME NEW x \in Goal(p), NEW y \in Goal(p) PROVE x = y
    <2>1. x \in Place(before, cwd, p, TRUE) /\ y \in Place(before, cwd, p, TRUE)
      BY <1>1
    <2> QED BY <1>2, <2>1, OnePlace
  <1>6. Goal(p) \subseteq Places
    BY <1>1, <1>2, PlaceTypes
  <1> QED BY <1>1, <1>2, <1>4, <1>5, <1>6

LEMMA QuietKeeps ==
    ASSUME UNCHANGED <<fs, before>>, pc # "copy", NEW c, Done(c)
    PROVE  Done(c)'
  BY DEF Done

\* Emptying the target in hand undoes no other copy.
LEMMA TruncateKeeps ==
    ASSUME TInv, TInv', Grown, Grown', Apart, Paired, Truncate,
           NEW c \in Copies, Done(c)
    PROVE  Done(c)'
  <1> SUFFICES ASSUME before.at[c[1]] \in Files PROVE Done(c)'
    BY DEF Truncate, command, Done
  <1>1. /\ UNCHANGED <<before, cwd, argv, from, to>> /\ pc = "trunc" /\ pc' = "copy"
    BY DEF Truncate, command
  <1>2. Goal(from)' = Goal(from) /\ Goal(to)' = Goal(to) /\ Goal(to) \subseteq Places
    BY <1>1, TreesOf, GoalKept DEF Goal
  <1>3. c \in Due
    BY TreesOf DEF Due
  <1>4. /\ fs.at[c[2]] \in Files /\ c[2] \in Places /\ c = <<c[1], c[2]>>
        /\ Sound(before.at[c[1]], fs.at[c[2]]) =>
              fs.text[fs.at[c[2]]] = before.text[before.at[c[1]]]
    BY <1>1, CopyPlaces DEF Done
  <1>5. PICK s \in Goal(from) : fs.at[s] = src
    BY <1>1 DEF Paired, NodesAt
  <1>6. PICK x \in Goal(to) :
          \/ /\ fs.at[x] \in Files \ locked
             /\ fs' = [fs EXCEPT !.text[fs.at[x]] = Empty]
          \/ /\ fs.at[x] = Nothing /\ x[1] \notin locked
             /\ Spare(Files) # {}
             /\ fs' = [fs EXCEPT !.at[x] = Made(Files), !.text[Made(Files)] = Empty]
    BY DEF Truncate
  <1> DEFINE e == <<s, x>>
  <1>7. e \in Due /\ e[2] = x
    BY <1>1, <1>5, <1>6 DEF Paired
  <1>8. CASE c = e
    BY <1>1, <1>2, <1>8 DEF Done
  <1>9. CASE c # e
    <2> HIDE DEF e
    <2>1. fs.at[c[2]] # fs.at[x]
      BY <1>3, <1>4, <1>7, <1>9, TargetsApart, TreesOf
    <2>2. fs'.at[c[2]] = fs.at[c[2]] /\ fs'.text[fs.at[c[2]]] = fs.text[fs.at[c[2]]]
      <3>1. CASE fs' = [fs EXCEPT !.text[fs.at[x]] = Empty]
        BY <1>4, <2>1, <3>1, TreesOf DEF Trees
      <3>2. CASE /\ fs.at[x] = Nothing /\ Spare(Files) # {}
                 /\ fs' = [fs EXCEPT !.at[x] = Made(Files), !.text[Made(Files)] = Empty]
        <4>1. fs.at[c[2]] # Made(Files)
          BY <1>4, <3>2, MadeNew, TreesOf DEF InTree
        <4> QED BY <1>4, <2>1, <3>2, <4>1, TreesOf DEF Trees
      <3> QED BY <1>6, <3>1, <3>2
    <2> QED BY <1>1, <1>4, <2>2 DEF Done
  <1> QED BY <1>8, <1>9

\* The pair in hand is copied, and no other copy undone.
LEMMA CopyKeeps ==
    ASSUME TInv, TInv', Grown, Grown', Apart, Paired, Copy, NEW c \in Copies,
           Done(c) \/ c \in Goal(from) \X Goal(to)
    PROVE  Done(c)'
  <1> SUFFICES ASSUME before.at[c[1]] \in Files PROVE Done(c)'
    BY DEF Copy, command, Done
  <1>1. /\ UNCHANGED <<before, cwd, argv, from, to>> /\ pc = "copy"
    BY DEF Copy, command
  <1>2. /\ \A x, y \in Goal(from) : x = y
        /\ \A x, y \in Goal(to) : x = y
    BY <1>1, TreesOf, GoalKept
  <1>3. c \in Due /\ c[2] \in Places /\ c = <<c[1], c[2]>>
    BY TreesOf, CopyPlaces DEF Due
  <1>4. PICK s \in Goal(from) : fs.at[s] = src
    BY <1>1 DEF Paired, NodesAt
  <1>0. PICK x \in Goal(to) : \E t \in Arrives(fs.at[x]) :
          fs' = [fs EXCEPT !.text[fs.at[x]] = t]
    BY DEF Copy
  <1>5. PICK t \in Arrives(fs.at[x]) : fs' = [fs EXCEPT !.text[fs.at[x]] = t]
    BY <1>0
  <1> DEFINE e == <<s, x>>
  <1>6. e \in Due /\ e[1] = s /\ e[2] = x /\ fs.at[x] \in Files
    BY <1>1, <1>4, <1>5 DEF Paired
  <1>7. fs'.at = fs.at
    BY <1>5, TreesOf DEF Trees
  <1>8. CASE c = e
    <2>1. c[1] = s /\ c[2] = x
      BY <1>6, <1>8
    <2>2. src = before.at[c[1]] /\ fs.text[src] = before.text[before.at[c[1]]]
      BY <1>3, <1>4, <2>1, SourceKept
    <2>3. fs'.text[fs.at[x]] = t /\ (Sound(src, fs.at[x]) => t = fs.text[src])
      BY <1>5, <1>6, <2>2, TreesOf DEF Trees, Arrives
    <2> QED BY <1>1, <1>6, <1>7, <2>1, <2>2, <2>3 DEF Done
  <1>9. CASE c # e
    <2>1. c \notin Goal(from) \X Goal(to)
      BY <1>2, <1>3, <1>4, <1>5, <1>9
    <2>2. /\ fs.at[c[2]] \in Files
          /\ Sound(before.at[c[1]], fs.at[c[2]]) =>
                fs.text[fs.at[c[2]]] = before.text[before.at[c[1]]]
      BY <2>1 DEF Done
    <2> HIDE DEF e
    <2>3. fs.at[c[2]] # fs.at[x]
      BY <1>3, <1>6, <1>9, <2>2, TargetsApart, TreesOf
    <2>4. fs'.text[fs.at[c[2]]] = fs.text[fs.at[c[2]]]
      BY <1>5, <2>2, <2>3, TreesOf DEF Trees
    <2> QED BY <1>1, <1>7, <2>2, <2>4 DEF Done
  <1> QED BY <1>8, <1>9

Keeps == \A c \in Copies : Done(c) => Done(c)'

LEMMA CopyStays ==
    ASSUME UNCHANGED <<argv, before>>
    PROVE  /\ argc' = argc /\ First' = First /\ Last' = Last
           /\ Copies' = Copies /\ Due' = Due /\ Apart' = Apart
           /\ \A p : OperandCopies(p)' = OperandCopies(p) /\ DirsOf(p)' = DirsOf(p)
           /\ \A p : Goal0(p)' = Goal0(p)
           /\ \A d : TreeCopies(d)' = TreeCopies(d)
           /\ \A x : CopiesFrom(x)' = CopiesFrom(x)
  BY DEF argc, Last, First, Option, Copies, Due, Apart, Same, DirOperands, DirsOf, Goal0,
         Operands, Below, CopiesFrom, TreeCopies, OperandCopies

LEMMA AllKept ==
    ASSUME Keeps, NEW C, C \subseteq Copies, AllDone(C)
    PROVE  AllDone(C)'
  BY DEF Keeps, AllDone

LEMMA PlaceKept ==
    ASSUME TInv, Keeps, UNCHANGED <<argv, before>>,
           NEW e \in DirOperands, NEW d \in Reach(before, e), NEW n \in Names,
           PlaceDone(<<d, n>>)
    PROVE  PlaceDone(<<d, n>>)'
  <1>1. argc # 3 /\ e \in Dirs /\ d \in Dirs
    <2>1. argc # 3 /\ e \in Dirs
      BY DEF DirOperands, DirsOf
    <2> QED BY <2>1, TreesOf, ReachClosed
  <1>2. ASSUME before.at[<<d, n>>] \in Files
        PROVE  AllDone(CopiesFrom(<<d, n>>))'
    <2>1. CopiesFrom(<<d, n>>) \subseteq Copies
      BY <1>1, <1>2, CopyParts
    <2>2. CopiesFrom(<<d, n>>)' = CopiesFrom(<<d, n>>)
      BY CopyStays
    <2> QED BY <1>2, <2>1, <2>2 DEF PlaceDone, AllDone, Keeps
  <1>3. ASSUME before.at[<<d, n>>] \in Dirs
        PROVE  AllDone(TreeCopies(before.at[<<d, n>>]))'
    <2>1. before.at[<<d, n>>] \in Reach(before, e)
      BY <1>1, <1>3, TreesOf, ReachClosed
    <2>2. TreeCopies(before.at[<<d, n>>]) \subseteq Copies
      BY <1>1, <2>1, CopyParts
    <2>3. TreeCopies(before.at[<<d, n>>])' = TreeCopies(before.at[<<d, n>>])
      BY CopyStays
    <2> QED BY <1>3, <2>2, <2>3 DEF PlaceDone, AllDone, Keeps
  <1> QED BY <1>2, <1>3 DEF PlaceDone

\* The frames.
LEMMA FrameFacts ==
    ASSUME TInv, Walk, NEW k \in 1..Len(stack)
    PROVE  /\ stack[k] \in Frames /\ stack[k].dir \in Dirs /\ stack[k].seen \subseteq Names
           /\ \E e \in DirOperands : stack[k].dir \in Reach(before, e)
           /\ stack # <<>> /\ argc # 3
           /\ Frame = stack[1] /\ cwd = stack[1].dir
  <1>1. Len(stack) \in Nat /\ stack[k] \in Frames
    BY TreesOf
  <1>2. stack # <<>>
    BY <1>1, EmptySeq
  <1>3. \E e \in DirOperands : stack[k].dir \in Reach(before, e)
    BY DEF Walk, Chain
  <1>4. argc # 3
    BY <1>3 DEF DirOperands
  <1>5. Frame = stack[1]
    BY <1>2, TreesOf, PopShape DEF Frame
  <1> QED BY <1>1, <1>2, <1>3, <1>4, <1>5 DEF Frames, Walk, Top

\* While an operand or one below it is in hand those before it stay done.
LEMMA ServedEarlier ==
    ASSUME TInv, Served, Keeps, UNCHANGED <<argv, before>>,
           tool = "cp", pc \in Copying \cup Walking \cup {"operand"}, argc > 3
    PROVE  /\ \A k \in First..(arg - 1) : AllDone(OperandCopies(argv[k]))'
           /\ \A k \in First..(Len(argv) - 1) : argv[k] \in Operands /\ argv[k] \in Paths
           /\ argc # 3 /\ arg \in Nat /\ First \in Nat /\ Len(argv) \in Nat
           /\ arg <= Len(argv)
  <1>1. /\ argc \in Nat /\ Len(argv) \in Nat /\ First \in 1..2
        /\ \A k \in 1..Len(argv) : argv[k] \in Paths
    BY ArgvTypes DEF TInv, Typed
  <1>2. arg \in First..Len(argv)
    BY <1>1 DEF TInv, Labelled
  <1>3. \A k \in First..(Len(argv) - 1) : argv[k] \in Operands /\ argv[k] \in Paths
    BY <1>1 DEF Operands
  <1>4. ASSUME NEW k \in First..(arg - 1)
        PROVE  AllDone(OperandCopies(argv[k]))'
    <2>1. k \in First..(Len(argv) - 1)
      BY <1>1, <1>2
    <2>2. argc # 3
      BY <1>1
    <2>3. OperandCopies(argv[k]) \subseteq Copies
      BY <1>3, <2>1, <2>2, CopyParts
    <2>4. OperandCopies(argv[k])' = OperandCopies(argv[k])
      BY CopyStays
    <2>5. AllDone(OperandCopies(argv[k]))
      BY DEF Served
    <2> QED BY <2>3, <2>4, <2>5 DEF AllDone, Keeps
  <1> QED BY <1>1, <1>2, <1>3, <1>4

LEMMA FrameStays ==
    ASSUME TInv, Walk, Keeps, UNCHANGED <<argv, before>>,
           NEW k \in 1..Len(stack), NEW n \in Names, PlaceDone(<<stack[k].dir, n>>)
    PROVE  \A d : d = stack[k].dir => PlaceDone(<<d, n>>)'
  <1>1. PICK e \in DirOperands : stack[k].dir \in Reach(before, e)
    BY FrameFacts
  <1> QED BY <1>1, PlaceKept

\* The directories walked, when one pair is in hand and stays so.
LEMMA WalkedStays ==
    ASSUME TInv, Walk, Walked, Keeps, UNCHANGED <<argv, before, stack, arg, from>>,
           pc \in Copying, pc' \in Copying
    PROVE  Walked'
  <1>1. ASSUME NEW k \in 1..Len(stack) PROVE Seen(k)'
    <2>1. Seen(k)
      BY DEF Walked
    <2>2. ASSUME NEW n \in stack[k].seen PROVE Handled(k, n)'
      <3>1. n \in Names
        BY FrameFacts
      <3>2. CASE PlaceDone(<<stack[k].dir, n>>)
        BY <3>1, <3>2, FrameStays DEF Handled
      <3>3. CASE ~ PlaceDone(<<stack[k].dir, n>>)
        BY <2>1, <3>3 DEF Seen, Handled
      <3> QED BY <3>2, <3>3
    <2> QED BY <2>1, <2>2 DEF Seen
  <1>2. stack # <<>> => stack[Len(stack)].dir \in DirsOf(argv[arg])'
    BY CopyStays DEF Walked
  <1> QED BY <1>1, <1>2 DEF Walked

\* On to the next operand.
LEMMA ServedNext ==
    ASSUME TInv, Served, Keeps, UNCHANGED <<argv, before>>,
           tool = "cp", pc \in Copying \cup Walking, argc > 3,
           pc' = "operand", arg' = arg + 1,
           \A j : j = arg => AllDone(OperandCopies(argv[j]))'
    PROVE  Walked' /\ Served' /\ Paired'
  <1>1. /\ \A k \in First..(arg - 1) : AllDone(OperandCopies(argv[k]))'
        /\ arg \in Nat /\ First \in Nat
    BY ServedEarlier
  <1>2. ASSUME NEW k \in First..((arg + 1) - 1)
        PROVE  AllDone(OperandCopies(argv[k]))'
    <2>1. k = arg \/ k \in First..(arg - 1)
      BY <1>1
    <2> QED BY <1>1, <2>1
  <1>3. Served'
    BY <1>1, <1>2, CopyStays DEF Served, Copying, Walking
  <1> QED BY <1>3 DEF Walked, Paired, Copying, Walking

LEMMA OpenArrives ==
    ASSUME TInv, TInv', Ran("cp"), Grown, Walk, Hand, Walked, Served, Open
    PROVE  Walked' /\ Served' /\ Paired'
  <1>1. /\ UNCHANGED <<fs, argv, before, stack, cwd, arg, from, to>>
        /\ pc = "fopen" /\ pc' \in {"failed", "trunc"} /\ tool = "cp"
        /\ pc' = "trunc" => src' \in Found(from)
    BY DEF Open, command, Ran
  <1>2. Keeps
    BY <1>1, QuietKeeps DEF Keeps
  <1>3. Walked'
    <2> SUFFICES ASSUME pc' = "trunc" PROVE Walked'
      BY <1>1 DEF Walked, Copying, Walking
    <2> QED BY <1>1, <1>2, WalkedStays DEF Copying
  <1>4. Served'
    BY <1>1, <1>2, ServedEarlier, CopyStays DEF Served, Copying, Walking
  <1>5. Paired'
    <2> SUFFICES ASSUME pc' = "trunc"
                 PROVE  Goal(from) \X Goal(to) \subseteq Due /\ src' \in NodesAt(fs, Goal(from))
      BY <1>1, CopyStays DEF Paired, Goal
    <2>1. \A s, x \in Goal(from) : s = x
      <3>1. from \in Paths /\ cwd \in Dirs /\ fs \in Trees
        BY TreesOf
      <3> QED BY <3>1, OnePlace DEF Goal
    <2>2. \A s \in Goal(from) : fs.at[s] # Nothing
      BY <1>1, <2>1 DEF Found, NodesAt
    <2>3. ASSUME NEW s \in Goal(from), NEW y \in Goal(to) PROVE <<s, y>> \in Due
      BY <1>1, <2>2, HandDue DEF Copying
    <2> QED BY <1>1, <2>3 DEF Found
  <1> QED BY <1>3, <1>4, <1>5

LEMMA TruncateArrives ==
    ASSUME TInv, TInv', Ran("cp"), Apart, Grown, Grown', Walk, Walked, Served, Paired,
           Truncate
    PROVE  Walked' /\ Served' /\ Paired'
  <1>1. /\ UNCHANGED <<argv, before, stack, cwd, arg, from, to, src>>
        /\ pc = "trunc" /\ pc' = "copy" /\ tool = "cp"
    BY DEF Truncate, command, Ran
  <1>2. Keeps
    BY TruncateKeeps DEF Keeps
  <1>3. Walked'
    BY <1>1, <1>2, WalkedStays DEF Copying
  <1>4. Served'
    BY <1>1, <1>2, ServedEarlier, CopyStays DEF Served, Copying, Walking
  <1>5. Paired'
    <2>1. Goal(from)' = Goal(from) /\ Goal(to)' = Goal(to) /\ Goal(to) \subseteq Places
      BY <1>1, TreesOf, GoalKept DEF Goal
    <2>2. \A x, y \in Goal(to) : x = y
      BY <1>1, TreesOf, GoalKept
    <2>3. PICK s \in Goal(from) : fs.at[s] = src /\ src # Nothing
      BY <1>1 DEF Paired, NodesAt
    <2>4. PICK x \in Goal(to) :
            \/ /\ fs.at[x] \in Files \ locked
               /\ fs' = [fs EXCEPT !.text[fs.at[x]] = Empty]
            \/ /\ fs.at[x] = Nothing /\ x[1] \notin locked
               /\ Spare(Files) # {}
               /\ fs' = [fs EXCEPT !.at[x] = Made(Files), !.text[Made(Files)] = Empty]
      BY DEF Truncate
    <2>5. fs'.at[x] \in Files /\ fs'.at[s] = fs.at[s]
      <3>1. s \in Places /\ x \in Places
        BY <2>1, <2>3, TreesOf, PlaceTypes DEF Goal
      <3>2. CASE fs' = [fs EXCEPT !.text[fs.at[x]] = Empty] /\ fs.at[x] \in Files
        BY <3>2, TreesOf DEF Trees
      <3>3. CASE /\ fs.at[x] = Nothing /\ Spare(Files) # {}
                 /\ fs' = [fs EXCEPT !.at[x] = Made(Files), !.text[Made(Files)] = Empty]
        <4>1. Made(Files) \in Files /\ s # x
          BY <2>3, <3>3, MadeNew
        <4> QED BY <3>1, <3>3, <4>1, TreesOf DEF Trees
      <3> QED BY <2>4, <3>2, <3>3
    <2>6. src \in NodesAt(fs', Goal(from))
      BY <2>3, <2>5 DEF NodesAt
    <2>7. \A y \in Goal(to) : fs'.at[y] \in Files
      BY <2>2, <2>4, <2>5
    <2>8. Goal(from) \X Goal(to) \subseteq Due
      BY <1>1 DEF Paired
    <2> QED BY <1>1, <2>1, <2>6, <2>7, <2>8, CopyStays DEF Paired, NodesAt
  <1> QED BY <1>3, <1>4, <1>5

LEMMA CopyArrives ==
    ASSUME TInv, TInv', Ran("cp"), Apart, Grown, Grown', Walk, Hand, Walked, Served, Paired,
           Copy
    PROVE  Walked' /\ Served' /\ Paired'
  <1>1. /\ UNCHANGED <<argv, before, stack, cwd, from, to>>
        /\ pc = "copy" /\ pc' \in {"loop", "ok", "operand"} /\ tool = "cp"
        /\ \/ stack # <<>> /\ pc' = "loop" /\ UNCHANGED arg
           \/ stack = <<>> /\ argc = 3 /\ pc' = "ok"
           \/ stack = <<>> /\ argc # 3 /\ pc' = "operand" /\ arg' = arg + 1
    BY DEF Copy, command, Ran
  <1>2. \A c \in Copies : Done(c) \/ c \in Goal(from) \X Goal(to) => Done(c)'
    BY CopyKeeps
  <1>3. Keeps
    BY <1>2 DEF Keeps
  <1>4. Paired'
    BY <1>1 DEF Paired
  <1>5. CASE stack # <<>>
    <2>1. PICK m \in Names :
              /\ from = <<m>> /\ to = Join(Last, <<m>>)
              /\ before.at[<<cwd, m>>] \in Files \cup {Nothing}
              /\ Goal(from) = {<<cwd, m>>} /\ Goal(to) = Goal0(Join(Last, <<m>>))
      BY <1>1, <1>5, HandName DEF Copying
    <2>2. PlaceDone(<<cwd, m>>)'
      <3>1. CASE before.at[<<cwd, m>>] \in Files
        <4>1. PICK e \in DirOperands : cwd \in Reach(before, e)
          BY <1>5, TreesOf, ChainPop DEF Walk, Top
        <4>2. argc # 3 /\ cwd \in Dirs
          BY <4>1, TreesOf DEF DirOperands
        <4>3. CopiesFrom(<<cwd, m>>) \subseteq Copies
          BY <3>1, <4>1, <4>2, CopyParts
        <4>4. CopiesFrom(<<cwd, m>>) = Goal(from) \X Goal(to)
          BY <2>1 DEF CopiesFrom
        <4>5. CopiesFrom(<<cwd, m>>)' = CopiesFrom(<<cwd, m>>)
          BY <1>1, CopyStays
        <4> QED BY <1>1, <1>2, <3>1, <4>3, <4>4, <4>5, TreesOf DEF PlaceDone, AllDone
      <3>2. CASE before.at[<<cwd, m>>] = Nothing
        BY <1>1, <3>2, TreesOf DEF PlaceDone
      <3> QED BY <2>1, <3>1, <3>2
    <2>3. ASSUME NEW k \in 1..Len(stack) PROVE Seen(k)'
      <3>1. Seen(k)
        BY <1>1 DEF Walked, Copying
      <3>2. ASSUME NEW n \in stack[k].seen PROVE Handled(k, n)'
        <4>1. n \in Names /\ cwd = stack[1].dir
          BY FrameFacts
        <4>2. CASE PlaceDone(<<stack[k].dir, n>>)
          BY <1>1, <1>3, <4>1, <4>2, FrameStays DEF Handled
        <4>3. CASE k = 1 /\ from = <<n>>
          <5>1. n = m
            BY <2>1, <4>3
          <5> QED BY <1>1, <2>2, <4>1, <4>3, <5>1 DEF Handled
        <4>4. CASE k > 1 /\ before.at[<<stack[k].dir, n>>] = stack[k - 1].dir
          BY <1>1, <4>4 DEF Handled
        <4> QED BY <3>1, <4>2, <4>3, <4>4 DEF Seen, Handled
      <3> QED BY <1>1, <3>1, <3>2 DEF Seen
    <2>4. stack[Len(stack)].dir \in DirsOf(argv[arg])'
      BY <1>1, <1>5, CopyStays DEF Walked, Copying
    <2>5. Walked'
      BY <1>1, <1>5, <2>3, <2>4 DEF Walked
    <2>6. Served'
      BY <1>1, <1>3, <1>5, ServedEarlier, CopyStays DEF Served, Copying, Walking
    <2> QED BY <1>4, <2>5, <2>6
  <1>6. CASE stack = <<>> /\ argc = 3
    <2>1. Copies = Goal(from) \X Goal(to)
      <3>1. from = argv[1] /\ to = argv[2]
        BY <1>1, <1>6 DEF Hand, Copying
      <3>2. Goal(from) = Goal0(from) /\ Goal(to) = Goal0(to)
        BY <1>6, TreesOf, GoalsStay DEF Walk, Top
      <3> QED BY <1>6, <3>1, <3>2 DEF Copies
    <2>2. AllDone(Copies)'
      BY <1>1, <1>2, <2>1, CopyStays DEF AllDone
    <2> QED BY <1>1, <1>4, <1>6, <2>2 DEF Walked, Served, Copying, Walking
  <1>7. CASE stack = <<>> /\ argc # 3
    <2>1. /\ argc > 3 /\ arg \in First..(Len(argv) - 1)
          /\ \A k \in First..(arg - 1) : AllDone(OperandCopies(argv[k]))'
          /\ argv[arg] \in Operands /\ arg \in Nat /\ First \in Nat
      BY <1>1, <1>3, <1>7, ServedEarlier DEF TInv, Labelled, Copying
    <2>2. ASSUME NEW j, j = arg PROVE AllDone(OperandCopies(argv[j]))'
      <3>1. /\ from = argv[arg] /\ to = Join(Last, argv[arg])
            /\ \A s \in Goal0(argv[arg]) : before.at[s] \notin Dirs
        BY <1>1, <1>7 DEF Hand, Copying
      <3>2. Goal(from) = Goal0(from) /\ Goal(to) = Goal0(to)
        BY <1>7, TreesOf, GoalsStay DEF Walk, Top
      <3>3. DirsOf(argv[arg]) = {}
        BY <3>1 DEF DirsOf, NodesAt
      <3>4. OperandCopies(argv[arg]) \subseteq Goal(from) \X Goal(to)
        BY <3>1, <3>2, <3>3 DEF OperandCopies
      <3>5. OperandCopies(argv[arg]) \subseteq Copies
        BY <1>7, <2>1, CopyParts
      <3>6. \A p : OperandCopies(p)' = OperandCopies(p)
        BY <1>1, CopyStays
      <3> QED BY <1>1, <1>2, <3>4, <3>5, <3>6, <2>2 DEF AllDone
    <2> QED BY <1>1, <1>3, <1>7, <2>1, <2>2, ServedNext DEF Copying
  <1> QED BY <1>5, <1>6, <1>7

LEMMA CpOperandArrives ==
    ASSUME TInv, TInv', Ran("cp"), Grown, Walk, Served, CpOperand
    PROVE  Walked' /\ Served' /\ Paired'
  <1>1. /\ UNCHANGED <<fs, argv, before, stack, cwd, arg>>
        /\ pc = "operand" /\ pc' \in {"fopen", "enter", "failed"} /\ tool = "cp"
        /\ stack = <<>> /\ Len(stack) = 0 /\ argc > 3 /\ cwd = Start
        /\ st' \in Stat(argv[arg])
        /\ pc' = "enter" => st' # "reg"
    BY EmptySeq DEF CpOperand, At, command, TInv, Labelled, Walk, Top
  <1>2. Keeps
    BY <1>1, QuietKeeps DEF Keeps
  <1>3. /\ \A k \in First..(arg - 1) : AllDone(OperandCopies(argv[k]))'
        /\ argv[arg] \in Paths
    <2>1. /\ \A k \in First..(arg - 1) : AllDone(OperandCopies(argv[k]))'
          /\ \A k \in First..(Len(argv) - 1) : argv[k] \in Paths
          /\ arg \in Nat /\ First \in Nat /\ Len(argv) \in Nat
      BY <1>1, <1>2, ServedEarlier
    <2>2. arg \in First..Len(argv) /\ arg < Len(argv)
      BY <1>1 DEF TInv, Labelled, CpOperand
    <2> QED BY <2>1, <2>2
  <1>4. ASSUME pc' = "enter", NEW s \in Goal0(argv[arg])
        PROVE  before.at[s] \in Dirs \cup {Nothing}
    <2>1. s \in Goal(argv[arg]) /\ s \in Places
      BY <1>1, <1>3, TreesOf, GoalsStay, PlaceTypes DEF Goal0
    <2>2. fs.at[s] \in Dirs \cup {Nothing}
      <3>1. CASE Found(argv[arg]) = {}
        BY <2>1, <3>1 DEF Found, NodesAt
      <3>2. CASE Found(argv[arg]) # {}
        <4>1. PICK n \in Found(argv[arg]) : st' = KindOf(n)
          BY <1>1, <3>2 DEF Stat
        <4>2. n = fs.at[s]
          BY <1>3, <2>1, <4>1, GoalTypes DEF Found, NodesAt
        <4>3. n \in Dirs
          BY <1>1, <1>4, <4>1 DEF KindOf
        <4> QED BY <4>2, <4>3
      <3> QED BY <3>1, <3>2
    <2> QED BY <2>1, <2>2 DEF Grown, MoreFiles
  <1>5. Walked'
    BY <1>1 DEF Walked
  <1>6. Served'
    BY <1>1, <1>3, <1>4, CopyStays DEF Served, Copying, Walking
  <1> QED BY <1>1, <1>5, <1>6 DEF Paired

\* All that is in a directory when it is opened is to be read.
LEMMA EnterArrives ==
    ASSUME TInv, TInv', Ran("cp"), Grown, Walk, Walked, Served, Enter
    PROVE  Walked' /\ Served' /\ Paired'
  <1>1. PICK d \in Found(from) :
          /\ CanOpen(d)
          /\ stack' = <<[dir |-> d, seen |-> {}, must |-> Entries(d)]>> \o stack
    BY DEF Enter
  <1>2. /\ UNCHANGED <<fs, argv, before, arg, from>> /\ tool = "cp"
        /\ pc = "enter" /\ pc' = "loop" /\ d \in Dirs
    BY <1>1 DEF Enter, command, CanOpen, Ran
  <1>3. Keeps
    BY <1>2, QuietKeeps DEF Keeps
  <1> DEFINE f == [dir |-> d, seen |-> {}, must |-> Entries(d)]
  <1>4. f \in Frames /\ f.dir = d /\ f.seen = {} /\ f.must = Entries(d)
    BY <1>2 DEF Frames, Entries
  <1> HIDE DEF f
  <1>5. /\ Len(stack') = Len(stack) + 1 /\ stack'[1] = f /\ stack' # <<>>
        /\ \A k \in 1..Len(stack) : stack'[k + 1] = stack[k]
    <2>1. stack' = <<f>> \o stack
      BY <1>1 DEF f
    <2> QED BY <1>4, <2>1, TreesOf, PushShape
  <1>6. Len(stack) \in Nat /\ (stack = <<>> <=> Len(stack) = 0)
    BY TreesOf, EmptySeq
  <1>7. PICK s \in Goal(from) : fs.at[s] = d /\ s \in Places /\ before.at[s] = d
    <2>1. PICK s \in Goal(from) : fs.at[s] = d
      BY DEF Found, NodesAt
    <2>2. s \in Places
      BY <2>1, TreesOf, PlaceTypes DEF Goal
    <2> QED BY <1>2, <2>1, <2>2, TreesOf DEF Grown, MoreFiles
  <1>8. ASSUME NEW n \in Names, before.at[<<d, n>>] # Nothing PROVE n \in Entries(d)
    <2>1. <<d, n>> \in Places
      BY <1>2 DEF Places
    <2> QED BY <1>8, <2>1, TreesOf DEF Entries, Grown, MoreFiles
  <1>9. Seen(1)'
    BY <1>2, <1>4, <1>5, <1>8 DEF Seen
  <1>10. ASSUME NEW k \in 1..Len(stack) PROVE Seen(k + 1)'
    <2>1. Seen(k) /\ stack'[k + 1] = stack[k]
      BY <1>2, <1>5 DEF Walked, Walking
    <2>2. ASSUME NEW n \in stack[k].seen PROVE Handled(k + 1, n)'
      <3>1. n \in Names /\ cwd = stack[1].dir /\ stack # <<>>
        BY FrameFacts
      <3>2. CASE PlaceDone(<<stack[k].dir, n>>)
        BY <1>2, <1>3, <2>1, <3>1, <3>2, FrameStays DEF Handled
      <3>3. CASE k = 1 /\ from = <<n>>
        <4>1. PICK m \in Names : from = <<m>> /\ before.at[<<cwd, m>>] \in Dirs
          BY <1>2, <3>1 DEF Walk
        <4>2. m = n
          BY <3>3, <4>1
        <4>3. before.at[<<cwd, n>>] = d
          BY <1>7, <4>1, <4>2, TreesOf, NameGoal
        <4>4. k + 1 > 1 /\ (k + 1) - 1 = 1
          BY <3>3
        <4> QED BY <1>2, <1>4, <1>5, <2>1, <3>1, <3>3, <4>3, <4>4 DEF Handled
      <3>4. CASE k > 1 /\ before.at[<<stack[k].dir, n>>] = stack[k - 1].dir
        <4>1. stack'[(k + 1) - 1] = stack[k - 1]
          <5>1. k - 1 \in 1..Len(stack) /\ (k + 1) - 1 = (k - 1) + 1
            BY <1>6, <3>4
          <5> QED BY <1>5, <5>1
        <4> QED BY <1>2, <2>1, <3>4, <4>1 DEF Handled
      <3> QED BY <2>1, <3>2, <3>3, <3>4 DEF Seen, Handled
    <2> QED BY <1>2, <2>1, <2>2 DEF Seen
  <1>11. ASSUME NEW j \in 1..Len(stack') PROVE Seen(j)'
    <2>1. j = 1 \/ (j - 1 \in 1..Len(stack) /\ (j - 1) + 1 = j)
      BY <1>5, <1>6
    <2> QED BY <1>9, <1>10, <2>1
  <1>12. stack'[Len(stack')].dir \in DirsOf(argv[arg])'
    <2>1. CASE stack = <<>>
      <3>1. from = argv[arg] /\ Len(stack') = 1
        BY <1>2, <1>5, <1>6, <2>1 DEF Walk
      <3>2. Goal(from) = Goal0(from)
        BY <2>1, TreesOf, GoalsStay DEF Walk, Top
      <3>3. d \in DirsOf(argv[arg])
        BY <1>2, <1>7, <3>1, <3>2, TreesOf DEF DirsOf, NodesAt
      <3> QED BY <1>2, <1>4, <1>5, <3>1, <3>3, CopyStays
    <2>2. CASE stack # <<>>
      <3>1. Len(stack) \in 1..Len(stack)
        BY <1>6, <2>2
      <3>2. stack'[Len(stack')] = stack[Len(stack)]
        BY <1>5, <3>1
      <3> QED BY <1>2, <2>2, <3>2, CopyStays DEF Walked, Walking
    <2> QED BY <2>1, <2>2
  <1>13. Walked'
    BY <1>11, <1>12 DEF Walked
  <1>14. Served'
    BY <1>2, <1>3, ServedEarlier, CopyStays DEF Served, Copying, Walking, TInv, Labelled
  <1> QED BY <1>2, <1>13, <1>14 DEF Paired

\* An operand that is not there leaves nothing to do.
LEMMA EnterFailsArrives ==
    ASSUME TInv, TInv', Ran("cp"), Grown, Walk, Walk', Served, EnterFails
    PROVE  Walked' /\ Served' /\ Paired'
  <1>1. /\ UNCHANGED <<fs, argv, before, arg, from, stack>> /\ tool = "cp"
        /\ pc = "enter" /\ pc' = "back" /\ argc > 3
    BY DEF EnterFails, End, command, Ran, TInv, Labelled, Walking
  <1>2. stack = <<>> /\ Len(stack) = 0
    BY <1>1, EmptySeq DEF Walk
  <1>3. Keeps
    BY <1>1, QuietKeeps DEF Keeps
  <1>4. ASSUME NEW s \in Goal0(argv[arg]), before.at[s] # Nothing PROVE FALSE
    <2>1. before.at[s] \in Dirs
      BY <1>1, <1>2, <1>4 DEF Served
    <2>2. Goal(from) = Goal0(argv[arg])
      BY <1>1, <1>2, TreesOf, GoalsStay DEF Walk, Top
    <2>3. s \in Places
      BY <2>2, TreesOf, GoalTypes
    <2>4. fs.at[s] = before.at[s]
      BY <1>4, <2>3 DEF Grown, MoreFiles
    <2>5. before.at[s] \in Found(from)
      BY <1>4, <2>2, <2>4 DEF Found, NodesAt
    <2>6. CanOpen(before.at[s])
      BY <2>1 DEF CanOpen, Ran
    <2> QED BY <2>5, <2>6 DEF EnterFails
  <1>5. Served'
    BY <1>1, <1>3, <1>4, ServedEarlier, CopyStays DEF Served, Copying, Walking
  <1>6. Walked'
    BY <1>1, <1>2 DEF Walked
  <1> QED BY <1>1, <1>5, <1>6 DEF Paired

\* A name that is read is in hand at once.
LEMMA ReadArrives ==
    ASSUME TInv, TInv', Ran("cp"), Grown, Walk, Walked, Served, NEW n \in Names, Read(n)
    PROVE  Walked' /\ Served' /\ Paired'
  <1>1. /\ UNCHANGED <<fs, argv, before, arg>> /\ tool = "cp"
        /\ pc = "loop" /\ stack # <<>> /\ argc > 3
        /\ stack' = <<[Frame EXCEPT !.seen = @ \cup {n}]>> \o Tail(stack)
        /\ from' = <<n>> /\ n \in Entries(Frame.dir)
        /\ pc' = (IF fs.at[<<Frame.dir, n>>] \in Files THEN "fopen"
                  ELSE IF fs.at[<<Frame.dir, n>>] \in Dirs THEN "enter" ELSE "loop")
    BY DEF Read, command, Ran, TInv, Labelled
  <1>2. Keeps
    BY <1>1, QuietKeeps DEF Keeps
  <1> DEFINE f == [Frame EXCEPT !.seen = @ \cup {n}]
  <1>3. /\ Len(stack) \in Nat /\ Len(stack) # 0
        /\ Tail(stack) \in Seq(Frames) /\ Len(Tail(stack)) = Len(stack) - 1
        /\ \A k \in 1..Len(Tail(stack)) : Tail(stack)[k] = stack[k + 1]
        /\ Frame = stack[1] /\ stack[1] \in Frames
    BY <1>1, TreesOf, PopShape, StackTypes, EmptySeq DEF Frame
  <1>4. /\ f \in Frames /\ f.dir = stack[1].dir /\ f.must = stack[1].must
        /\ f.seen = stack[1].seen \cup {n}
    BY <1>3 DEF Frames
  <1> HIDE DEF f
  <1>5. /\ Len(stack') = Len(stack) /\ stack'[1] = f /\ stack' # <<>>
        /\ \A k \in 2..Len(stack) : stack'[k] = stack[k]
    <2>1. stack' = <<f>> \o Tail(stack)
      BY <1>1 DEF f
    <2>2. /\ Len(stack') = Len(Tail(stack)) + 1 /\ stack'[1] = f /\ stack' # <<>>
          /\ \A k \in 1..Len(Tail(stack)) : stack'[k + 1] = Tail(stack)[k]
      BY <1>3, <1>4, <2>1, PushShape
    <2>3. ASSUME NEW k \in 2..Len(stack) PROVE stack'[k] = stack[k]
      <3>1. k - 1 \in 1..Len(Tail(stack)) /\ (k - 1) + 1 = k
        BY <1>3
      <3> QED BY <1>3, <2>2, <3>1
    <2> QED BY <1>3, <2>2, <2>3
  <1>6. \A k \in 1..Len(stack) : stack'[k].dir = stack[k].dir /\ stack'[k].must = stack[k].must
    <2>1. \A k \in 1..Len(stack) : k = 1 \/ k \in 2..Len(stack)
      BY <1>3
    <2> QED BY <1>4, <1>5, <2>1
  <1>7. ASSUME NEW k \in 1..Len(stack), NEW m \in stack[k].seen
        PROVE  Handled(k, m)'
    <2>1. Seen(k) /\ m \in Names
      BY <1>1, FrameFacts DEF Walked, Walking
    <2>2. CASE PlaceDone(<<stack[k].dir, m>>)
      BY <1>1, <1>2, <1>6, <2>1, <2>2, FrameStays DEF Handled
    <2>3. CASE k > 1 /\ before.at[<<stack[k].dir, m>>] = stack[k - 1].dir
      <3>1. k - 1 \in 1..Len(stack)
        BY <1>3, <2>3
      <3> QED BY <1>1, <1>6, <2>3, <3>1 DEF Handled
    <2> QED BY <1>1, <2>1, <2>2, <2>3 DEF Seen, Handled, Copying
  <1>8. Handled(1, n)'
    <2>1. CASE pc' \in {"fopen", "enter"}
      BY <1>1, <2>1 DEF Handled, Copying
    <2>2. CASE pc' = "loop"
      <3>1. <<stack[1].dir, n>> \in Places
        BY <1>3 DEF Frames, Places
      <3>2. fs.at[<<stack[1].dir, n>>] \notin Files \cup Dirs \cup {Nothing}
        BY <1>1, <1>3, <2>2 DEF Entries
      <3>3. before.at[<<stack[1].dir, n>>] \notin Files \cup Dirs
        BY <3>1, <3>2 DEF Grown, MoreFiles
      <3>4. PlaceDone(<<stack[1].dir, n>>)'
        BY <1>1, <1>4, <1>5, <3>3 DEF PlaceDone
      <3> QED BY <3>4 DEF Handled
    <2> QED BY <1>1, <2>1, <2>2
  <1>9. ASSUME NEW k \in 1..Len(stack) PROVE Seen(k)'
    <2>1. Seen(k)
      BY <1>1 DEF Walked, Walking
    <2>2. \A m \in stack'[k].seen : Handled(k, m)'
      <3>1. CASE k = 1
        BY <1>4, <1>5, <1>7, <1>8, <3>1
      <3>2. CASE k # 1
        <4>1. stack'[k] = stack[k]
          BY <1>3, <1>5, <3>2
        <4> QED BY <1>7, <4>1
      <3> QED BY <3>1, <3>2
    <2> QED BY <1>1, <1>6, <2>1, <2>2 DEF Seen
  <1>10. stack'[Len(stack')].dir \in DirsOf(argv[arg])'
    <2>1. Len(stack) \in 1..Len(stack)
      BY <1>3
    <2>2. stack'[Len(stack')].dir = stack[Len(stack)].dir
      BY <1>5, <1>6, <2>1
    <2> QED BY <1>1, <2>2, CopyStays DEF Walked, Walking
  <1>11. Walked'
    BY <1>5, <1>9, <1>10 DEF Walked
  <1>12. Served'
    BY <1>1, <1>2, <1>5, ServedEarlier, CopyStays DEF Served, Copying, Walking
  <1> QED BY <1>1, <1>11, <1>12 DEF Paired

\* When all there is in a directory has been seen, all that is below is copied.
LEMMA LeaveArrives ==
    ASSUME TInv, TInv', Ran("cp"), Grown, Walk, Walked, Served, Leave
    PROVE  Walked' /\ Served' /\ Paired'
  <1>1. /\ UNCHANGED <<fs, argv, before, from>> /\ tool = "cp"
        /\ pc = "loop" /\ stack # <<>> /\ argc > 3 /\ argc # 3
        /\ stack[1].must \subseteq stack[1].seen
        /\ stack' = Tail(stack)
        /\ IF Len(stack) = 1 THEN pc' = "operand" /\ arg' = arg + 1
                             ELSE pc' = "loop" /\ UNCHANGED arg
    <2>1. Frame = stack[1]
      BY TreesOf, PopShape DEF Frame, Leave, TInv, Labelled
    <2>2. argc > 3 /\ argc # 3
      BY ArgvTypes DEF Leave, TInv, Typed, Labelled
    <2> QED BY <2>1, <2>2 DEF Leave, command, Ran, TInv, Labelled
  <1>2. Keeps
    BY <1>1, QuietKeeps DEF Keeps
  <1>3. /\ Len(stack) \in Nat /\ Len(stack) # 0
        /\ Len(stack') = Len(stack) - 1
        /\ \A k \in 1..Len(stack') : stack'[k] = stack[k + 1]
    BY <1>1, TreesOf, PopShape, EmptySeq
  <1> DEFINE d == stack[1].dir
  <1>4. Seen(1) /\ 1 \in 1..Len(stack) /\ d \in Dirs
    BY <1>1, <1>3, FrameFacts DEF Walked, Walking
  <1>5. PICK e \in DirOperands : d \in Reach(before, e)
    BY <1>4, FrameFacts
  <1> HIDE DEF d
  <1>6. AllDone(TreeCopies(d))
    <2> SUFFICES ASSUME NEW c \in TreeCopies(d), before.at[c[1]] \in Files PROVE Done(c)
      BY DEF AllDone, Done
    <2>1. PICK x \in Below(d) : c \in CopiesFrom(x)
      BY DEF TreeCopies
    <2>2. PICK b \in Reach(before, d), n \in Names : x = <<b, n>>
      BY <2>1 DEF Below
    <2>3. c[1] = x
      BY <2>1 DEF CopiesFrom
    <2>4. \A m \in Names : before.at[<<d, m>>] # Nothing => PlaceDone(<<d, m>>)
      BY <1>1, <1>4 DEF Seen, Handled, Copying, d
    <2>5. CASE b = d
      <3>1. before.at[<<d, n>>] \in Files /\ before.at[<<d, n>>] # Nothing
        BY <2>2, <2>3, <2>5, TreesOf
      <3> QED BY <2>1, <2>2, <2>4, <2>5, <3>1 DEF PlaceDone, AllDone
    <2>6. CASE \E m \in Names : /\ before.at[<<d, m>>] \in Dirs
                                /\ b \in Reach(before, before.at[<<d, m>>])
      <3>1. PICK m \in Names : /\ before.at[<<d, m>>] \in Dirs
                               /\ b \in Reach(before, before.at[<<d, m>>])
        BY <2>6
      <3>2. x \in Below(before.at[<<d, m>>])
        BY <2>1, <2>2, <3>1 DEF Below
      <3>3. c \in TreeCopies(before.at[<<d, m>>])
        BY <2>1, <3>2 DEF TreeCopies
      <3> QED BY <2>4, <3>1, <3>3, TreesOf DEF PlaceDone, AllDone
    <2> QED BY <1>4, <2>2, <2>5, <2>6, TreesOf, ReachParts
  <1>7. CASE Len(stack) = 1
    <2>1. ASSUME NEW j, j = arg PROVE AllDone(OperandCopies(argv[j]))'
      <3>1. d \in DirsOf(argv[arg])
        BY <1>1, <1>7 DEF Walked, Walking, d
      <3>2. argv[arg] \in Operands /\ argv[arg] \in Paths
        <4>1. arg \in First..(Len(argv) - 1)
          BY <1>1 DEF TInv, Labelled, Walking
        <4> QED BY <1>1, <1>2, <4>1, ServedEarlier DEF Walking
      <3>3. \A x, y \in Goal0(argv[arg]) : x = y
        <4>1. \A x, y \in Place(before, Start, argv[arg], TRUE) : x = y
          BY <3>2, TreesOf, OnePlace
        <4> QED BY <4>1 DEF Goal0
      <3>4. DirsOf(argv[arg]) = {d} /\ \A x \in Goal0(argv[arg]) : before.at[x] \in Dirs
        BY <3>1, <3>3 DEF DirsOf, NodesAt
      <3>5. OperandCopies(argv[arg]) \subseteq TreeCopies(d)
        BY <3>4 DEF OperandCopies
      <3>6. OperandCopies(argv[arg]) \subseteq Copies
        BY <1>1, <3>2, CopyParts
      <3>7. \A p : OperandCopies(p)' = OperandCopies(p)
        BY <1>1, CopyStays
      <3> QED BY <1>1, <1>2, <1>6, <2>1, <3>5, <3>6, <3>7 DEF AllDone, Keeps
    <2> QED BY <1>1, <1>2, <1>7, <2>1, ServedNext DEF Walking
  <1>8. CASE Len(stack) # 1
    <2>1. ASSUME NEW k \in 1..Len(stack') PROVE Seen(k)'
      <3>1. k + 1 \in 1..Len(stack) /\ k + 1 # 1 /\ stack'[k] = stack[k + 1]
        BY <1>3
      <3>2. Seen(k + 1)
        BY <1>1, <3>1 DEF Walked, Walking
      <3>3. ASSUME NEW n \in stack[k + 1].seen PROVE Handled(k, n)'
        <4>1. n \in Names
          BY <3>1, FrameFacts
        <4>2. CASE PlaceDone(<<stack[k + 1].dir, n>>)
          BY <1>1, <1>2, <3>1, <4>1, <4>2, FrameStays DEF Handled
        <4>3. CASE before.at[<<stack[k + 1].dir, n>>] = stack[(k + 1) - 1].dir
          <5>1. CASE k = 1
            <6>1. before.at[<<stack[k + 1].dir, n>>] = d
              BY <4>3, <5>1 DEF d
            <6>2. PlaceDone(<<stack[k + 1].dir, n>>)
              BY <1>4, <1>6, <6>1, TreesOf DEF PlaceDone
            <6> QED BY <1>1, <1>2, <3>1, <4>1, <6>2, FrameStays DEF Handled
          <5>2. CASE k # 1
            <6>1. k > 1 /\ k - 1 \in 1..Len(stack') /\ (k - 1) + 1 = (k + 1) - 1
              BY <1>3, <5>2
            <6>2. stack'[k - 1] = stack[(k + 1) - 1]
              BY <1>3, <6>1
            <6> QED BY <1>1, <3>1, <4>3, <6>1, <6>2 DEF Handled
          <5> QED BY <5>1, <5>2
        <4> QED BY <3>1, <3>2, <4>2, <4>3 DEF Seen, Handled
      <3> QED BY <1>1, <3>1, <3>2, <3>3 DEF Seen
    <2>2. stack'[Len(stack')].dir \in DirsOf(argv[arg])'
      <3>1. Len(stack') \in 1..Len(stack') /\ Len(stack') + 1 = Len(stack)
        BY <1>3, <1>8
      <3>2. stack'[Len(stack')] = stack[Len(stack)]
        BY <1>3, <3>1
      <3> QED BY <1>1, <1>8, <3>2, CopyStays DEF Walked, Walking
    <2>3. Walked'
      BY <2>1, <2>2 DEF Walked
    <2>4. Served'
      BY <1>1, <1>2, <1>8, ServedEarlier, CopyStays DEF Served, Copying, Walking
    <2> QED BY <1>1, <1>8, <2>3, <2>4 DEF Paired
  <1> QED BY <1>7, <1>8

LEMMA BackArrives ==
    ASSUME TInv, TInv', Ran("cp"), Grown, Walk, Walked, Served, Back
    PROVE  Walked' /\ Served' /\ Paired'
  <1>1. /\ UNCHANGED <<fs, argv, before, from>> /\ tool = "cp"
        /\ pc = "back" /\ argc > 3 /\ argc # 3
        /\ pc' = "operand" /\ arg' = arg + 1
    <2>1. argc > 3 /\ argc # 3
      BY ArgvTypes DEF Back, TInv, Typed, Labelled, Walking
    <2> QED BY <2>1 DEF Back, command, Ran, Walk
  <1>2. Keeps
    BY <1>1, QuietKeeps DEF Keeps
  <1>3. ASSUME NEW j, j = arg PROVE AllDone(OperandCopies(argv[j]))'
    <2>1. \A s \in Goal0(argv[arg]) : before.at[s] = Nothing
      BY <1>1 DEF Served
    <2>2. DirsOf(argv[arg]) = {}
      BY <2>1 DEF DirsOf, NodesAt
    <2>3. \A c \in OperandCopies(argv[arg]) : before.at[c[1]] \notin Files
      BY <2>1, <2>2, TreesOf DEF OperandCopies
    <2>4. \A p : OperandCopies(p)' = OperandCopies(p)
      BY <1>1, CopyStays
    <2> QED BY <1>1, <1>3, <2>3, <2>4 DEF AllDone, Done
  <1> QED BY <1>1, <1>2, <1>3, ServedNext DEF Walking

LEMMA ArriveStep ==
    ASSUME TInv, TInv', CpInv, CpInv', ArriveInv, Next
    PROVE  ArriveInv'
  <1> SUFFICES ASSUME Ran("cp")', Apart' PROVE Walked' /\ Served' /\ Paired'
    BY DEF ArriveInv
  <1>1. CASE pc' \in {"main", "failed"}
    BY <1>1 DEF Walked, Served, Paired, Copying, Walking
  <1>2. CASE Step
    <2>1. /\ UNCHANGED <<tool, argv, before, unread, barred>>
          /\ opened' \in {opened, opened + 1}
      BY <1>2 DEF Step, Usage, CpFiles, Target, CpOperand, Finished, Open,
              Truncate, TruncateFails, Copy, EnterFails, Enter, Read, Leave, Back, MvFiles,
              MvOperand, MvRefused, Ln, Symlink, GetMask, MkdirOperand, MkdirDone, End,
              command, given
    <2>2. opened \in Nat
      BY LimitsAssumption DEF TInv, Typed, TypeOK
    <2>3. Ran("cp") /\ tool = "cp" /\ Apart
      BY <2>1, <2>2, RanBefore, CopyStays DEF Ran
    <2>4. Grown /\ Walk /\ Hand /\ Grown' /\ Walk'
      BY <2>3 DEF CpInv
    <2>5. Walked /\ Served /\ Paired
      BY <2>3 DEF ArriveInv
    <2>6. CASE CpFiles
      <3>1. pc' = "fopen" /\ argc = 3 /\ UNCHANGED <<stack, argv>> /\ stack = <<>>
        BY <2>6 DEF CpFiles, command, At, TInv, Labelled
      <3>2. stack' = <<>> /\ Len(stack') = 0 /\ ~ argc' > 3
        BY <3>1, EmptySeq, CopyStays DEF argc
      <3> QED BY <3>1, <3>2 DEF Walked, Served, Paired
    <2>7. CASE Target /\ pc' = "operand"
      <3>1. arg' = First /\ First' = First /\ First \in 1..2
        BY <2>7, CopyStays, ArgvTypes DEF Target, command, TInv, Typed
      <3>2. ASSUME NEW k \in First'..(arg' - 1) PROVE FALSE
        BY <3>1
      <3> QED BY <2>7, <3>2 DEF Walked, Served, Paired, Copying, Walking
    <2>8. CASE Finished
      <3>1. /\ pc' = "ok" /\ pc = "operand" /\ arg = Len(argv)
            /\ UNCHANGED <<fs, argv, before>> /\ argc > 3 /\ argc # 3
        <4>1. argc > 3 => argc # 3
          BY ArgvTypes DEF TInv, Typed
        <4> QED BY <2>3, <2>8, <4>1 DEF Finished, End, command, TInv, Labelled
      <3>2. AllDone(Copies)
        <4> SUFFICES ASSUME NEW c \in Copies PROVE Done(c)
          BY DEF AllDone
        <4>1. PICK k \in First..(arg - 1) : c \in OperandCopies(argv[k])
          BY <3>1 DEF Copies, Operands
        <4> QED BY <2>5, <3>1, <4>1 DEF Served, AllDone
      <3>3. \A c \in Copies : Done(c)'
        BY <3>1, <3>2, QuietKeeps DEF AllDone
      <3> QED BY <3>1, <3>3, CopyStays
              DEF Walked, Served, Paired, Copying, Walking, AllDone
    <2>9. \/ pc' = "failed" \/ CpFiles \/ (Target /\ pc' = "operand") \/ CpOperand
          \/ Finished \/ Open \/ Truncate \/ Copy
          \/ EnterFails \/ Enter \/ (\E n \in Names : Read(n)) \/ Leave \/ Back
      BY <1>2, <2>3 DEF Step, Usage, Target, TruncateFails, MvFiles, MvOperand,
              MvRefused, Ln, Symlink, GetMask, MkdirOperand, MkdirDone, End, At
    <2> QED BY <1>1, <2>3, <2>4, <2>5, <2>6, <2>7, <2>8, <2>9, CpOperandArrives,
               OpenArrives, TruncateArrives, CopyArrives, EnterFailsArrives, EnterArrives,
               ReadArrives, LeaveArrives, BackArrives, SMTT(30)
  <1>3. CASE Run
    BY <1>1, <1>3 DEF Run
  <1> QED BY <1>2, <1>3 DEF Next

LEMMA ArriveInvariant == Spec => []ArriveInv
  <1>1. Init => ArriveInv
    BY DEF Init, ArriveInv, Ran
  <1>2. TInv /\ TInv' /\ CpInv /\ CpInv' /\ ArriveInv /\ [Next]_vars => ArriveInv'
    <2> SUFFICES ASSUME TInv, TInv', CpInv, CpInv', ArriveInv, [Next]_vars
                 PROVE  ArriveInv'
      OBVIOUS
    <2>1. CASE UNCHANGED vars
      <3> SUFFICES ASSUME Ran("cp")', Apart' PROVE Walked' /\ Served' /\ Paired'
        BY DEF ArriveInv
      <3>1. UNCHANGED <<fs, tool, argv, before, unread, barred, stack, cwd, arg, pc,
                        from, to, src, opened>>
        BY <2>1 DEF vars, given, command
      <3>2. opened \in Nat
        BY LimitsAssumption DEF TInv, Typed, TypeOK
      <3>3. Walked /\ Served /\ Paired
        BY <3>1, <3>2, RanBefore, CopyStays DEF ArriveInv
      <3>4. /\ Goal(from)' = Goal(from) /\ Goal(to)' = Goal(to)
            /\ NodesAt(fs, Goal(from))' = NodesAt(fs, Goal(from))
        BY <3>1 DEF Goal, NodesAt
      <3>5. \A c : Done(c)' <=> Done(c)
        BY <3>1, <3>4 DEF Done
      <3>6. \A C : AllDone(C)' <=> AllDone(C)
        BY <3>5 DEF AllDone
      <3>7. \A k, n : PlaceDone(<<stack[k].dir, n>>)' <=> PlaceDone(<<stack[k].dir, n>>)
        BY <3>1, <3>6, CopyStays DEF PlaceDone
      <3>8. \A k : Seen(k)' <=> Seen(k)
        BY <3>1, <3>7 DEF Seen, Handled
      <3>9. Walked'
        BY <3>1, <3>3, <3>8, CopyStays DEF Walked
      <3>10. Served'
        BY <3>1, <3>3, <3>6, CopyStays DEF Served
      <3> QED BY <3>1, <3>3, <3>4, <3>9, <3>10, CopyStays DEF Paired
    <2> QED BY <2>1, ArriveStep
  <1> QED BY <1>1, <1>2, TypesInvariant, CpInvariant, PTL DEF Spec

\* When cp succeeds all it was given, and all that was below, has its name in the
\* target, and its contents unless a read, a write or a close failed on the two,
\* and is where it was, whatever tree of whatever depth cp went through.
THEOREM CpArrives == Spec => []CopiesArrive
  <1>1. TInv /\ CpInv /\ ArriveInv => CopiesArrive
    <2> SUFFICES ASSUME TInv, Apart, Grown, Served, pc = "ok",
                        NEW c \in Copies, before.at[c[1]] \in Files
                 PROVE  /\ fs.at[c[2]] \in Files
                        /\ Sound(before.at[c[1]], fs.at[c[2]]) =>
                              fs.text[fs.at[c[2]]] = before.text[before.at[c[1]]]
                        /\ fs.text[before.at[c[1]]] = before.text[before.at[c[1]]]
      BY DEF CpInv, ArriveInv, CopiesArrive
    <2>1. Done(c)
      BY DEF Served, AllDone
    <2>2. c \in Due
      BY TreesOf DEF Due
    <2> QED BY <2>1, <2>2, SourceKept DEF Done
  <1> QED BY <1>1, TypesInvariant, CpInvariant, ArriveInvariant, PTL

=============================================================================
