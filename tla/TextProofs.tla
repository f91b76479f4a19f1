----------------------------- MODULE TextProofs -----------------------------
(***************************************************************************)
(* The stream tools keep what TextTools says of them, whatever they are    *)
(* run on, and so does the shell's line reader, for every size of both its *)
(* buffers and every line.                                                 *)
(*                                                                         *)
(* A tool's loop over its input is a fold, and FoldLeft of the library is  *)
(* unfolded by Recursion.  Then each property has its invariant: the       *)
(* output is the tool's image of the operands handled so far.              *)
(***************************************************************************)
EXTENDS TextTools, LineReader, Recursion

-----------------------------------------------------------------------------
(* The loops of the tools as folds.  For each of them Step is what the     *)
(* loop does with one more element, Rule is Step as a function, Eq is what *)
(* FoldLeft defines, and Of is the fold of Rule.  The lemmas: Step has its *)
(* type (Typed), Rule too (RuleIs), the operator of TextTools is the fold  *)
(* (IsFold), and how that begins and goes on (Laws).                       *)

Most == 65535

\* The numbers of 16 bits, by their bounds.
LEMMA Words == \A n : n \in Word <=> n \in Nat /\ n < 65536
  <1>1. Word = 0..Most
    BY DEF Word, Most
  <1>2. Most \in Nat
    BY DEF Most
  <1>3. \A n : n \in Word <=> n \in Nat /\ n <= Most
    BY <1>1, <1>2
  <1>4. \A n \in Nat : n <= Most <=> n < 65536
    BY DEF Most
  <1> QED BY <1>3, <1>4

\* What is cut to 16 bits is one of them.
LEMMA Cut == \A x \in Nat : x % 65536 \in Word
  <1>1. \A x \in Nat : x % 65536 \in Nat /\ x % 65536 < 65536
    OBVIOUS
  <1> QED BY <1>1, Words

\* The bytes, by their bounds.
LEMMA Octets == \A n : n \in Octet <=> n \in Nat /\ n < 256
  BY DEF Octet

Place == [byte : Nat, line : Nat]
Printed == [bytes : Nat, newlines : Nat]
Text == Seq(Octet)
Reading == [lines : Seq(Text), line : Text]
Scanning == [lines : Seq(Text), line : Text, skip : BOOLEAN]

\* Texts and sequences of texts grow by one at their end.
LEMMA Texts ==
    /\ <<>> \in Text /\ \A l \in Text, c \in Octet : Append(l, c) \in Text
    /\ <<>> \in Seq(Text) /\ \A ls \in Seq(Text), l \in Text : Append(ls, l) \in Seq(Text)
  BY DEF Text

Matching == [j : Nat, match : BOOLEAN]

\* What sum makes of one byte more.
SumStep(s, c) ==
    (s \div 2 + (s % 2) * 32768 + c) % 65536
SumRule == [x \in Word \X Octet |-> SumStep(x[1], x[2])]
SumEq(f, t) == f = [s \in SUBSET (DOMAIN t) |->
    IF s = {} THEN 0 ELSE SumStep(f[s \ {Max(s)}], t[Max(s)])]
SumRun(t) == CHOOSE f : SumEq(f, t)
SumOf(x) == Fold(x, 0, SumRule)

LEMMA SumTyped ==
    ASSUME NEW s \in Word, NEW c \in Octet
    PROVE  SumStep(s, c) \in Word
  <1>1. s \div 2 + (s % 2) * 32768 + c \in Nat
    <2>1. s \in Nat /\ c \in Nat
      BY Words, Octets
    <2>2. s \div 2 \in Nat /\ s % 2 \in Nat
      BY <2>1
    <2> QED BY <2>1, <2>2
  <1>2. PICK x \in Nat : x = s \div 2 + (s % 2) * 32768 + c
    BY <1>1
  <1>3. x % 65536 \in Word
    BY Cut
  <1> QED BY <1>2, <1>3 DEF SumStep

LEMMA SumRuleIs ==
    /\ SumRule \in [Word \X Octet -> Word]
    /\ \A s \in Word, c \in Octet : SumRule[<<s, c>>] = SumStep(s, c)
  BY SumTyped DEF SumRule

LEMMA SumIsFold ==
    ASSUME NEW t \in Seq(Octet)
    PROVE  Sum(t) = <<SumOf(t)>>
  <1>1. 0 \in Word
    BY Words
  <1>2. /\ SumRule \in [Word \X Octet -> Word]
        /\ \A s \in Word, c \in Octet : SumRule[<<s, c>>] = SumStep(s, c)
    BY SumRuleIs
  <1>3. t \in Seq(Octet) /\ \A n \in DOMAIN t : t[n] \in Octet
    OBVIOUS
  <1>4. SumEq(FoldRun(t, 0, SumRule), t)
    <2> DEFINE g == FoldRun(t, 0, SumRule)
    <2>1. RunsIn(Word, t, 0, SumRule)
      BY <1>1, <1>2, <1>3, FoldRuns
    <2>2. /\ g \in [SUBSET (DOMAIN t) -> Word] /\ g[{}] = 0
          /\ \A s \in SUBSET (DOMAIN t) :
                s # {} => g[s] = SumStep(g[s \ {Max(s)}], t[Max(s)])
      BY <1>2, <1>3, <2>1 DEF RunsIn
    <2> HIDE DEF g
    <2>3. SumEq(g, t)
      BY <2>2 DEF SumEq
    <2> QED BY <2>3 DEF g
  <1>5. SumEq(SumRun(t), t)
    BY <1>4 DEF SumRun
  <1>6. SumRun(t)[{}] = 0
    BY <1>5 DEF SumEq
  <1>7. ASSUME NEW s \in SUBSET (DOMAIN t), s # {}, Max(s) \in DOMAIN t,
               SumRun(t)[s \ {Max(s)}] \in Word
        PROVE  SumRun(t)[s] = SumRule[<<SumRun(t)[s \ {Max(s)}], t[Max(s)]>>]
    <2>1. SumRun(t)[s] = SumStep(SumRun(t)[s \ {Max(s)}], t[Max(s)])
      BY <1>5, <1>7 DEF SumEq
    <2> QED BY <1>2, <1>3, <1>7, <2>1
  <1>8. ComesTo(SumRun(t), Word, Octet, t, 0, SumRule)
    BY <1>1, <1>2, <1>3, <1>6, <1>7, FoldIs
  <1>9. Sum(t) = <<SumRun(t)[DOMAIN t]>>
    BY DEF Sum, FoldLeft, MapThenFoldSet, SumRun, SumEq, SumStep
  <1> QED BY <1>8, <1>9 DEF ComesTo, SumOf

LEMMA SumLaws ==
    /\ SumOf(<<>>) = 0
    /\ \A x \in Seq(Octet) : SumOf(x) \in Word
    /\ \A x \in Seq(Octet), c \in Octet :
          SumOf(Append(x, c)) = SumStep(SumOf(x), c)
  <1>1. 0 \in Word
    BY Words
  <1>2. GoesOn(Word, Octet, 0, SumRule)
    BY <1>1, SumRuleIs, FoldGoesOn
  <1> QED BY <1>2, SumRuleIs DEF GoesOn, SumOf

\* The places of tr's sets, in their order.
Spots(s1) == [n \in DOMAIN s1 |-> n]

\* What tr makes of a byte at one of them.
TrStep(s1, s2, s, c) ==
    IF s = s1[c] THEN s2[c] ELSE s
TrRule(s1, s2) == [x \in Octet \X (DOMAIN s1) |-> TrStep(s1, s2, x[1], x[2])]
TrEq(s1, s2, f, d) == f = [s \in SUBSET (DOMAIN Spots(s1)) |->
    IF s = {} THEN d ELSE TrStep(s1, s2, f[s \ {Max(s)}], Spots(s1)[Max(s)])]
TrRun(s1, s2, d) == CHOOSE f : TrEq(s1, s2, f, d)
TrOf(s1, s2, d, x) == Fold(x, d, TrRule(s1, s2))

LEMMA TrTyped ==
    ASSUME NEW s1 \in Seq(Octet), NEW s2 \in Seq(Octet), Len(s1) = Len(s2),
           NEW s \in Octet, NEW c \in DOMAIN s1
    PROVE  TrStep(s1, s2, s, c) \in Octet
  BY DEF TrStep

LEMMA TrRuleIs ==
    ASSUME NEW s1 \in Seq(Octet), NEW s2 \in Seq(Octet), Len(s1) = Len(s2)
    PROVE  /\ TrRule(s1, s2) \in [Octet \X (DOMAIN s1) -> Octet]
           /\ \A s \in Octet, c \in DOMAIN s1 : TrRule(s1, s2)[<<s, c>>] = TrStep(s1, s2, s, c)
  BY TrTyped DEF TrRule

LEMMA TrIsFold ==
    ASSUME NEW s1 \in Seq(Octet), NEW s2 \in Seq(Octet), Len(s1) = Len(s2), NEW d \in Octet
    PROVE  Translate(d, s1, s2) = TrOf(s1, s2, d, Spots(s1))
  <1>1. d \in Octet
    OBVIOUS
  <1>2. /\ TrRule(s1, s2) \in [Octet \X (DOMAIN s1) -> Octet]
        /\ \A s \in Octet, c \in DOMAIN s1 : TrRule(s1, s2)[<<s, c>>] = TrStep(s1, s2, s, c)
    BY TrRuleIs
  <1>3. Spots(s1) \in Seq(DOMAIN s1) /\ \A k \in DOMAIN Spots(s1) : Spots(s1)[k] \in DOMAIN s1
    BY DEF Spots
  <1>4. TrEq(s1, s2, FoldRun(Spots(s1), d, TrRule(s1, s2)), d)
    <2> DEFINE g == FoldRun(Spots(s1), d, TrRule(s1, s2))
    <2>1. RunsIn(Octet, Spots(s1), d, TrRule(s1, s2))
      BY <1>1, <1>2, <1>3, FoldRuns
    <2>2. /\ g \in [SUBSET (DOMAIN Spots(s1)) -> Octet] /\ g[{}] = d
          /\ \A s \in SUBSET (DOMAIN Spots(s1)) :
                s # {} => g[s] = TrStep(s1, s2, g[s \ {Max(s)}], Spots(s1)[Max(s)])
      BY <1>2, <1>3, <2>1 DEF RunsIn
    <2> HIDE DEF g
    <2>3. TrEq(s1, s2, g, d)
      BY <2>2 DEF TrEq
    <2> QED BY <2>3 DEF g
  <1>5. TrEq(s1, s2, TrRun(s1, s2, d), d)
    BY <1>4 DEF TrRun
  <1>6. TrRun(s1, s2, d)[{}] = d
    BY <1>5 DEF TrEq
  <1>7. ASSUME NEW s \in SUBSET (DOMAIN Spots(s1)), s # {}, Max(s) \in DOMAIN Spots(s1),
               TrRun(s1, s2, d)[s \ {Max(s)}] \in Octet
        PROVE  TrRun(s1, s2, d)[s] =
                  TrRule(s1, s2)[<<TrRun(s1, s2, d)[s \ {Max(s)}], Spots(s1)[Max(s)]>>]
    <2>1. TrRun(s1, s2, d)[s] =
              TrStep(s1, s2, TrRun(s1, s2, d)[s \ {Max(s)}], Spots(s1)[Max(s)])
      BY <1>5, <1>7 DEF TrEq
    <2> QED BY <1>2, <1>3, <1>7, <2>1
  <1>8. ComesTo(TrRun(s1, s2, d), Octet, DOMAIN s1, Spots(s1), d, TrRule(s1, s2))
    BY <1>1, <1>2, <1>3, <1>6, <1>7, FoldIs
  <1>9. Translate(d, s1, s2) = TrRun(s1, s2, d)[DOMAIN Spots(s1)]
    BY DEF Translate, FoldLeft, MapThenFoldSet, TrRun, TrEq, TrStep, Spots
  <1> QED BY <1>8, <1>9 DEF ComesTo, TrOf

LEMMA TrLaws ==
    ASSUME NEW s1 \in Seq(Octet), NEW s2 \in Seq(Octet), Len(s1) = Len(s2), NEW d \in Octet
    PROVE  /\ TrOf(s1, s2, d, <<>>) = d
           /\ \A x \in Seq(DOMAIN s1) : TrOf(s1, s2, d, x) \in Octet
           /\ \A x \in Seq(DOMAIN s1), c \in DOMAIN s1 :
                 TrOf(s1, s2, d, Append(x, c)) = TrStep(s1, s2, TrOf(s1, s2, d, x), c)
  <1>1. d \in Octet
    OBVIOUS
  <1>2. GoesOn(Octet, DOMAIN s1, d, TrRule(s1, s2))
    BY <1>1, TrRuleIs, FoldGoesOn
  <1> QED BY <1>2, TrRuleIs DEF GoesOn, TrOf

\* What cmp makes of one pair of bytes.
CmpStep(t, u, s, c) ==
    IF Byte(t, s.byte) # Byte(u, s.byte) THEN s
    ELSE [byte |-> s.byte + 1,
          line |-> s.line + (IF Byte(t, s.byte) = Newline THEN 1 ELSE 0)]
CmpRule(t, u) == [x \in Place \X Octet |-> CmpStep(t, u, x[1], x[2])]
CmpEq(t, u, f) == f = [s \in SUBSET (DOMAIN t) |->
    IF s = {} THEN [byte |-> 1, line |-> 0] ELSE CmpStep(t, u, f[s \ {Max(s)}], t[Max(s)])]
CmpRun(t, u) == CHOOSE f : CmpEq(t, u, f)
CmpOf(t, u, x) == Fold(x, [byte |-> 1, line |-> 0], CmpRule(t, u))

LEMMA CmpTyped ==
    ASSUME NEW t, NEW u, NEW s \in Place, NEW c \in Octet
    PROVE  CmpStep(t, u, s, c) \in Place
  BY DEF CmpStep, Place

LEMMA CmpRuleIs ==
    ASSUME NEW t, NEW u
    PROVE  /\ CmpRule(t, u) \in [Place \X Octet -> Place]
           /\ \A s \in Place, c \in Octet : CmpRule(t, u)[<<s, c>>] = CmpStep(t, u, s, c)
  BY CmpTyped DEF CmpRule

LEMMA CmpIsFold ==
    ASSUME NEW t \in Seq(Octet), NEW u
    PROVE  Cmp(t, u) = LET s == CmpOf(t, u, t)
                       IN IF Byte(t, s.byte) = Byte(u, s.byte) THEN <<>> ELSE <<s>>
  <1>1. [byte |-> 1, line |-> 0] \in Place
    BY DEF Place
  <1>2. /\ CmpRule(t, u) \in [Place \X Octet -> Place]
        /\ \A s \in Place, c \in Octet : CmpRule(t, u)[<<s, c>>] = CmpStep(t, u, s, c)
    BY CmpRuleIs
  <1>3. t \in Seq(Octet) /\ \A n \in DOMAIN t : t[n] \in Octet
    OBVIOUS
  <1>4. CmpEq(t, u, FoldRun(t, [byte |-> 1, line |-> 0], CmpRule(t, u)))
    <2> DEFINE g == FoldRun(t, [byte |-> 1, line |-> 0], CmpRule(t, u))
    <2>1. RunsIn(Place, t, [byte |-> 1, line |-> 0], CmpRule(t, u))
      BY <1>1, <1>2, <1>3, FoldRuns
    <2>2. /\ g \in [SUBSET (DOMAIN t) -> Place] /\ g[{}] = [byte |-> 1, line |-> 0]
          /\ \A s \in SUBSET (DOMAIN t) :
                s # {} => g[s] = CmpStep(t, u, g[s \ {Max(s)}], t[Max(s)])
      BY <1>2, <1>3, <2>1 DEF RunsIn
    <2> HIDE DEF g
    <2>3. CmpEq(t, u, g)
      BY <2>2 DEF CmpEq
    <2> QED BY <2>3 DEF g
  <1>5. CmpEq(t, u, CmpRun(t, u))
    BY <1>4 DEF CmpRun
  <1>6. CmpRun(t, u)[{}] = [byte |-> 1, line |-> 0]
    BY <1>5 DEF CmpEq
  <1>7. ASSUME NEW s \in SUBSET (DOMAIN t), s # {}, Max(s) \in DOMAIN t,
               CmpRun(t, u)[s \ {Max(s)}] \in Place
        PROVE  CmpRun(t, u)[s] = CmpRule(t, u)[<<CmpRun(t, u)[s \ {Max(s)}], t[Max(s)]>>]
    <2>1. CmpRun(t, u)[s] = CmpStep(t, u, CmpRun(t, u)[s \ {Max(s)}], t[Max(s)])
      BY <1>5, <1>7 DEF CmpEq
    <2> QED BY <1>2, <1>3, <1>7, <2>1
  <1>8. ComesTo(CmpRun(t, u), Place, Octet, t, [byte |-> 1, line |-> 0], CmpRule(t, u))
    BY <1>1, <1>2, <1>3, <1>6, <1>7, FoldIs
  <1>9. Cmp(t, u) = LET s == CmpRun(t, u)[DOMAIN t]
                   IN IF Byte(t, s.byte) = Byte(u, s.byte) THEN <<>> ELSE <<s>>
    BY DEF Cmp, FoldLeft, MapThenFoldSet, CmpRun, CmpEq, CmpStep
  <1> QED BY <1>8, <1>9 DEF ComesTo, CmpOf

LEMMA CmpLaws ==
    ASSUME NEW t, NEW u
    PROVE  /\ CmpOf(t, u, <<>>) = [byte |-> 1, line |-> 0]
           /\ \A x \in Seq(Octet) : CmpOf(t, u, x) \in Place
           /\ \A x \in Seq(Octet), c \in Octet :
                 CmpOf(t, u, Append(x, c)) = CmpStep(t, u, CmpOf(t, u, x), c)
  <1>1. [byte |-> 1, line |-> 0] \in Place
    BY DEF Place
  <1>2. GoesOn(Place, Octet, [byte |-> 1, line |-> 0], CmpRule(t, u))
    BY <1>1, CmpRuleIs, FoldGoesOn
  <1> QED BY <1>2, CmpRuleIs DEF GoesOn, CmpOf

\* What head makes of one byte.
HeadStep(t, lines, s, c) ==
    IF s.newlines >= lines THEN s
    ELSE [bytes |-> s.bytes + 1,
          newlines |-> s.newlines + (IF Byte(t, s.bytes + 2) = Newline THEN 1 ELSE 0)]
HeadRule(t, lines) == [x \in Printed \X Octet |-> HeadStep(t, lines, x[1], x[2])]
HeadEq(t, lines, f) == f = [s \in SUBSET (DOMAIN t) |->
    IF s = {} THEN [bytes |-> 0, newlines |-> 0] ELSE HeadStep(t, lines, f[s \ {Max(s)}], t[Max(s)])]
HeadRun(t, lines) == CHOOSE f : HeadEq(t, lines, f)
HeadOf(t, lines, x) == Fold(x, [bytes |-> 0, newlines |-> 0], HeadRule(t, lines))

LEMMA HeadTyped ==
    ASSUME NEW t, NEW lines, NEW s \in Printed, NEW c \in Octet
    PROVE  HeadStep(t, lines, s, c) \in Printed
  BY DEF HeadStep, Printed

LEMMA HeadRuleIs ==
    ASSUME NEW t, NEW lines
    PROVE  /\ HeadRule(t, lines) \in [Printed \X Octet -> Printed]
           /\ \A s \in Printed, c \in Octet : HeadRule(t, lines)[<<s, c>>] = HeadStep(t, lines, s, c)
  BY HeadTyped DEF HeadRule

LEMMA HeadIsFold ==
    ASSUME NEW t \in Seq(Octet), NEW lines
    PROVE  HeadEnd(t, lines) = HeadOf(t, lines, t)
  <1>1. [bytes |-> 0, newlines |-> 0] \in Printed
    BY DEF Printed
  <1>2. /\ HeadRule(t, lines) \in [Printed \X Octet -> Printed]
        /\ \A s \in Printed, c \in Octet : HeadRule(t, lines)[<<s, c>>] = HeadStep(t, lines, s, c)
    BY HeadRuleIs
  <1>3. t \in Seq(Octet) /\ \A n \in DOMAIN t : t[n] \in Octet
    OBVIOUS
  <1>4. HeadEq(t, lines, FoldRun(t, [bytes |-> 0, newlines |-> 0], HeadRule(t, lines)))
    <2> DEFINE g == FoldRun(t, [bytes |-> 0, newlines |-> 0], HeadRule(t, lines))
    <2>1. RunsIn(Printed, t, [bytes |-> 0, newlines |-> 0], HeadRule(t, lines))
      BY <1>1, <1>2, <1>3, FoldRuns
    <2>2. /\ g \in [SUBSET (DOMAIN t) -> Printed] /\ g[{}] = [bytes |-> 0, newlines |-> 0]
          /\ \A s \in SUBSET (DOMAIN t) :
                s # {} => g[s] = HeadStep(t, lines, g[s \ {Max(s)}], t[Max(s)])
      BY <1>2, <1>3, <2>1 DEF RunsIn
    <2> HIDE DEF g
    <2>3. HeadEq(t, lines, g)
      BY <2>2 DEF HeadEq
    <2> QED BY <2>3 DEF g
  <1>5. HeadEq(t, lines, HeadRun(t, lines))
    BY <1>4 DEF HeadRun
  <1>6. HeadRun(t, lines)[{}] = [bytes |-> 0, newlines |-> 0]
    BY <1>5 DEF HeadEq
  <1>7. ASSUME NEW s \in SUBSET (DOMAIN t), s # {}, Max(s) \in DOMAIN t,
               HeadRun(t, lines)[s \ {Max(s)}] \in Printed
        PROVE  HeadRun(t, lines)[s] = HeadRule(t, lines)[<<HeadRun(t, lines)[s \ {Max(s)}], t[Max(s)]>>]
    <2>1. HeadRun(t, lines)[s] = HeadStep(t, lines, HeadRun(t, lines)[s \ {Max(s)}], t[Max(s)])
      BY <1>5, <1>7 DEF HeadEq
    <2> QED BY <1>2, <1>3, <1>7, <2>1
  <1>8. ComesTo(HeadRun(t, lines), Printed, Octet, t, [bytes |-> 0, newlines |-> 0], HeadRule(t, lines))
    BY <1>1, <1>2, <1>3, <1>6, <1>7, FoldIs
  <1>9. HeadEnd(t, lines) = HeadRun(t, lines)[DOMAIN t]
    BY DEF HeadEnd, FoldLeft, MapThenFoldSet, HeadRun, HeadEq, HeadStep
  <1> QED BY <1>8, <1>9 DEF ComesTo, HeadOf

LEMMA HeadLaws ==
    ASSUME NEW t, NEW lines
    PROVE  /\ HeadOf(t, lines, <<>>) = [bytes |-> 0, newlines |-> 0]
           /\ \A x \in Seq(Octet) : HeadOf(t, lines, x) \in Printed
           /\ \A x \in Seq(Octet), c \in Octet :
                 HeadOf(t, lines, Append(x, c)) = HeadStep(t, lines, HeadOf(t, lines, x), c)
  <1>1. [bytes |-> 0, newlines |-> 0] \in Printed
    BY DEF Printed
  <1>2. GoesOn(Printed, Octet, [bytes |-> 0, newlines |-> 0], HeadRule(t, lines))
    BY <1>1, HeadRuleIs, FoldGoesOn
  <1> QED BY <1>2, HeadRuleIs DEF GoesOn, HeadOf

\* What getline makes of one byte.
LinesStep(s, c) ==
    IF c = Newline
    THEN [lines |-> Append(s.lines, Append(s.line, c)), line |-> <<>>]
    ELSE [lines |-> s.lines, line |-> Append(s.line, c)]
LinesRule == [x \in Reading \X Octet |-> LinesStep(x[1], x[2])]
LinesEq(f, t) == f = [s \in SUBSET (DOMAIN t) |->
    IF s = {} THEN [lines |-> <<>>, line |-> <<>>] ELSE LinesStep(f[s \ {Max(s)}], t[Max(s)])]
LinesRun(t) == CHOOSE f : LinesEq(f, t)
LinesOf(x) == Fold(x, [lines |-> <<>>, line |-> <<>>], LinesRule)

LEMMA LinesTyped ==
    ASSUME NEW s \in Reading, NEW c \in Octet
    PROVE  LinesStep(s, c) \in Reading
  BY Texts DEF LinesStep, Reading

LEMMA LinesRuleIs ==
    /\ LinesRule \in [Reading \X Octet -> Reading]
    /\ \A s \in Reading, c \in Octet : LinesRule[<<s, c>>] = LinesStep(s, c)
  BY LinesTyped DEF LinesRule

LEMMA LinesIsFold ==
    ASSUME NEW t \in Seq(Octet)
    PROVE  Lines(t) = LET s == LinesOf(t)
                      IN IF s.line = <<>> THEN s.lines ELSE Append(s.lines, s.line)
  <1>1. [lines |-> <<>>, line |-> <<>>] \in Reading
    BY Texts DEF Reading
  <1>2. /\ LinesRule \in [Reading \X Octet -> Reading]
        /\ \A s \in Reading, c \in Octet : LinesRule[<<s, c>>] = LinesStep(s, c)
    BY LinesRuleIs
  <1>3. t \in Seq(Octet) /\ \A n \in DOMAIN t : t[n] \in Octet
    OBVIOUS
  <1>4. LinesEq(FoldRun(t, [lines |-> <<>>, line |-> <<>>], LinesRule), t)
    <2> DEFINE g == FoldRun(t, [lines |-> <<>>, line |-> <<>>], LinesRule)
    <2>1. RunsIn(Reading, t, [lines |-> <<>>, line |-> <<>>], LinesRule)
      BY <1>1, <1>2, <1>3, FoldRuns
    <2>2. /\ g \in [SUBSET (DOMAIN t) -> Reading] /\ g[{}] = [lines |-> <<>>, line |-> <<>>]
          /\ \A s \in SUBSET (DOMAIN t) :
                s # {} => g[s] = LinesStep(g[s \ {Max(s)}], t[Max(s)])
      BY <1>2, <1>3, <2>1 DEF RunsIn
    <2> HIDE DEF g
    <2>3. LinesEq(g, t)
      BY <2>2 DEF LinesEq
    <2> QED BY <2>3 DEF g
  <1>5. LinesEq(LinesRun(t), t)
    BY <1>4 DEF LinesRun
  <1>6. LinesRun(t)[{}] = [lines |-> <<>>, line |-> <<>>]
    BY <1>5 DEF LinesEq
  <1>7. ASSUME NEW s \in SUBSET (DOMAIN t), s # {}, Max(s) \in DOMAIN t,
               LinesRun(t)[s \ {Max(s)}] \in Reading
        PROVE  LinesRun(t)[s] = LinesRule[<<LinesRun(t)[s \ {Max(s)}], t[Max(s)]>>]
    <2>1. LinesRun(t)[s] = LinesStep(LinesRun(t)[s \ {Max(s)}], t[Max(s)])
      BY <1>5, <1>7 DEF LinesEq
    <2> QED BY <1>2, <1>3, <1>7, <2>1
  <1>8. ComesTo(LinesRun(t), Reading, Octet, t, [lines |-> <<>>, line |-> <<>>], LinesRule)
    BY <1>1, <1>2, <1>3, <1>6, <1>7, FoldIs
  <1>9. Lines(t) = LET s == LinesRun(t)[DOMAIN t]
                  IN IF s.line = <<>> THEN s.lines ELSE Append(s.lines, s.line)
    BY DEF Lines, FoldLeft, MapThenFoldSet, LinesRun, LinesEq, LinesStep
  <1> QED BY <1>8, <1>9 DEF ComesTo, LinesOf

LEMMA LinesLaws ==
    /\ LinesOf(<<>>) = [lines |-> <<>>, line |-> <<>>]
    /\ \A x \in Seq(Octet) : LinesOf(x) \in Reading
    /\ \A x \in Seq(Octet), c \in Octet :
          LinesOf(Append(x, c)) = LinesStep(LinesOf(x), c)
  <1>1. [lines |-> <<>>, line |-> <<>>] \in Reading
    BY Texts DEF Reading
  <1>2. GoesOn(Reading, Octet, [lines |-> <<>>, line |-> <<>>], LinesRule)
    BY <1>1, LinesRuleIs, FoldGoesOn
  <1> QED BY <1>2, LinesRuleIs DEF GoesOn, LinesOf

\* What fscanf makes of one byte.
ScanStep(s, c) ==
    IF s.skip /\ c \in Space THEN s
    ELSE IF c = Newline
    THEN [lines |-> Append(s.lines, s.line), line |-> <<>>, skip |-> TRUE]
    ELSE [lines |-> s.lines, line |-> Append(s.line, c), skip |-> FALSE]
ScanRule == [x \in Scanning \X Octet |-> ScanStep(x[1], x[2])]
ScanEq(f, t) == f = [s \in SUBSET (DOMAIN t) |->
    IF s = {} THEN [lines |-> <<>>, line |-> <<>>, skip |-> FALSE] ELSE ScanStep(f[s \ {Max(s)}], t[Max(s)])]
ScanRun(t) == CHOOSE f : ScanEq(f, t)
ScanOf(x) == Fold(x, [lines |-> <<>>, line |-> <<>>, skip |-> FALSE], ScanRule)

LEMMA ScanTyped ==
    ASSUME NEW s \in Scanning, NEW c \in Octet
    PROVE  ScanStep(s, c) \in Scanning
  BY Texts DEF ScanStep, Scanning

LEMMA ScanRuleIs ==
    /\ ScanRule \in [Scanning \X Octet -> Scanning]
    /\ \A s \in Scanning, c \in Octet : ScanRule[<<s, c>>] = ScanStep(s, c)
  BY ScanTyped DEF ScanRule

LEMMA ScanIsFold ==
    ASSUME NEW t \in Seq(Octet)
    PROVE  Scanned(t) = LET s == ScanOf(t)
                        IN IF s.skip THEN s.lines ELSE Append(s.lines, s.line)
  <1>1. [lines |-> <<>>, line |-> <<>>, skip |-> FALSE] \in Scanning
    BY Texts DEF Scanning
  <1>2. /\ ScanRule \in [Scanning \X Octet -> Scanning]
        /\ \A s \in Scanning, c \in Octet : ScanRule[<<s, c>>] = ScanStep(s, c)
    BY ScanRuleIs
  <1>3. t \in Seq(Octet) /\ \A n \in DOMAIN t : t[n] \in Octet
    OBVIOUS
  <1>4. ScanEq(FoldRun(t, [lines |-> <<>>, line |-> <<>>, skip |-> FALSE], ScanRule), t)
    <2> DEFINE g == FoldRun(t, [lines |-> <<>>, line |-> <<>>, skip |-> FALSE], ScanRule)
    <2>1. RunsIn(Scanning, t, [lines |-> <<>>, line |-> <<>>, skip |-> FALSE], ScanRule)
      BY <1>1, <1>2, <1>3, FoldRuns
    <2>2. /\ g \in [SUBSET (DOMAIN t) -> Scanning] /\ g[{}] = [lines |-> <<>>, line |-> <<>>, skip |-> FALSE]
          /\ \A s \in SUBSET (DOMAIN t) :
                s # {} => g[s] = ScanStep(g[s \ {Max(s)}], t[Max(s)])
      BY <1>2, <1>3, <2>1 DEF RunsIn
    <2> HIDE DEF g
    <2>3. ScanEq(g, t)
      BY <2>2 DEF ScanEq
    <2> QED BY <2>3 DEF g
  <1>5. ScanEq(ScanRun(t), t)
    BY <1>4 DEF ScanRun
  <1>6. ScanRun(t)[{}] = [lines |-> <<>>, line |-> <<>>, skip |-> FALSE]
    BY <1>5 DEF ScanEq
  <1>7. ASSUME NEW s \in SUBSET (DOMAIN t), s # {}, Max(s) \in DOMAIN t,
               ScanRun(t)[s \ {Max(s)}] \in Scanning
        PROVE  ScanRun(t)[s] = ScanRule[<<ScanRun(t)[s \ {Max(s)}], t[Max(s)]>>]
    <2>1. ScanRun(t)[s] = ScanStep(ScanRun(t)[s \ {Max(s)}], t[Max(s)])
      BY <1>5, <1>7 DEF ScanEq
    <2> QED BY <1>2, <1>3, <1>7, <2>1
  <1>8. ComesTo(ScanRun(t), Scanning, Octet, t, [lines |-> <<>>, line |-> <<>>, skip |-> FALSE], ScanRule)
    BY <1>1, <1>2, <1>3, <1>6, <1>7, FoldIs
  <1>9. Scanned(t) = LET s == ScanRun(t)[DOMAIN t]
                    IN IF s.skip THEN s.lines ELSE Append(s.lines, s.line)
    BY DEF Scanned, FoldLeft, MapThenFoldSet, ScanRun, ScanEq, ScanStep
  <1> QED BY <1>8, <1>9 DEF ComesTo, ScanOf

LEMMA ScanLaws ==
    /\ ScanOf(<<>>) = [lines |-> <<>>, line |-> <<>>, skip |-> FALSE]
    /\ \A x \in Seq(Octet) : ScanOf(x) \in Scanning
    /\ \A x \in Seq(Octet), c \in Octet :
          ScanOf(Append(x, c)) = ScanStep(ScanOf(x), c)
  <1>1. [lines |-> <<>>, line |-> <<>>, skip |-> FALSE] \in Scanning
    BY Texts DEF Scanning
  <1>2. GoesOn(Scanning, Octet, [lines |-> <<>>, line |-> <<>>, skip |-> FALSE], ScanRule)
    BY <1>1, ScanRuleIs, FoldGoesOn
  <1> QED BY <1>2, ScanRuleIs DEF GoesOn, ScanOf

\* What grep's comparison makes of one byte.
MatchStep(p, s, c) ==
    IF s.j > 0 /\ s.j >= Len(p) THEN s
    ELSE IF p # <<>> /\ c = p[s.j + 1] THEN [j |-> s.j + 1, match |-> TRUE]
    ELSE [j |-> 0, match |-> FALSE]
MatchRule(p) == [x \in Matching \X Octet |-> MatchStep(p, x[1], x[2])]
MatchEq(p, f, t) == f = [s \in SUBSET (DOMAIN t) |->
    IF s = {} THEN [j |-> 0, match |-> FALSE] ELSE MatchStep(p, f[s \ {Max(s)}], t[Max(s)])]
MatchRun(p, t) == CHOOSE f : MatchEq(p, f, t)
MatchOf(p, x) == Fold(x, [j |-> 0, match |-> FALSE], MatchRule(p))

LEMMA MatchTyped ==
    ASSUME NEW p, NEW s \in Matching, NEW c \in Octet
    PROVE  MatchStep(p, s, c) \in Matching
  BY DEF MatchStep, Matching

LEMMA MatchRuleIs ==
    ASSUME NEW p
    PROVE  /\ MatchRule(p) \in [Matching \X Octet -> Matching]
           /\ \A s \in Matching, c \in Octet : MatchRule(p)[<<s, c>>] = MatchStep(p, s, c)
  BY MatchTyped DEF MatchRule

LEMMA MatchIsFold ==
    ASSUME NEW p, NEW t \in Seq(Octet)
    PROVE  Matches(t, p) = MatchOf(p, t).match
  <1>1. [j |-> 0, match |-> FALSE] \in Matching
    BY DEF Matching
  <1>2. /\ MatchRule(p) \in [Matching \X Octet -> Matching]
        /\ \A s \in Matching, c \in Octet : MatchRule(p)[<<s, c>>] = MatchStep(p, s, c)
    BY MatchRuleIs
  <1>3. t \in Seq(Octet) /\ \A n \in DOMAIN t : t[n] \in Octet
    OBVIOUS
  <1>4. MatchEq(p, FoldRun(t, [j |-> 0, match |-> FALSE], MatchRule(p)), t)
    <2> DEFINE g == FoldRun(t, [j |-> 0, match |-> FALSE], MatchRule(p))
    <2>1. RunsIn(Matching, t, [j |-> 0, match |-> FALSE], MatchRule(p))
      BY <1>1, <1>2, <1>3, FoldRuns
    <2>2. /\ g \in [SUBSET (DOMAIN t) -> Matching] /\ g[{}] = [j |-> 0, match |-> FALSE]
          /\ \A s \in SUBSET (DOMAIN t) :
                s # {} => g[s] = MatchStep(p, g[s \ {Max(s)}], t[Max(s)])
      BY <1>2, <1>3, <2>1 DEF RunsIn
    <2> HIDE DEF g
    <2>3. MatchEq(p, g, t)
      BY <2>2 DEF MatchEq
    <2> QED BY <2>3 DEF g
  <1>5. MatchEq(p, MatchRun(p, t), t)
    BY <1>4 DEF MatchRun
  <1>6. MatchRun(p, t)[{}] = [j |-> 0, match |-> FALSE]
    BY <1>5 DEF MatchEq
  <1>7. ASSUME NEW s \in SUBSET (DOMAIN t), s # {}, Max(s) \in DOMAIN t,
               MatchRun(p, t)[s \ {Max(s)}] \in Matching
        PROVE  MatchRun(p, t)[s] = MatchRule(p)[<<MatchRun(p, t)[s \ {Max(s)}], t[Max(s)]>>]
    <2>1. MatchRun(p, t)[s] = MatchStep(p, MatchRun(p, t)[s \ {Max(s)}], t[Max(s)])
      BY <1>5, <1>7 DEF MatchEq
    <2> QED BY <1>2, <1>3, <1>7, <2>1
  <1>8. ComesTo(MatchRun(p, t), Matching, Octet, t, [j |-> 0, match |-> FALSE], MatchRule(p))
    BY <1>1, <1>2, <1>3, <1>6, <1>7, FoldIs
  <1>9. Matches(t, p) = MatchRun(p, t)[DOMAIN t].match
    BY DEF Matches, FoldLeft, MapThenFoldSet, MatchRun, MatchEq, MatchStep
  <1> QED BY <1>8, <1>9 DEF ComesTo, MatchOf

LEMMA MatchLaws ==
    ASSUME NEW p
    PROVE  /\ MatchOf(p, <<>>) = [j |-> 0, match |-> FALSE]
           /\ \A x \in Seq(Octet) : MatchOf(p, x) \in Matching
           /\ \A x \in Seq(Octet), c \in Octet :
                 MatchOf(p, Append(x, c)) = MatchStep(p, MatchOf(p, x), c)
  <1>1. [j |-> 0, match |-> FALSE] \in Matching
    BY DEF Matching
  <1>2. GoesOn(Matching, Octet, [j |-> 0, match |-> FALSE], MatchRule(p))
    BY <1>1, MatchRuleIs, FoldGoesOn
  <1> QED BY <1>2, MatchRuleIs DEF GoesOn, MatchOf

\* What is kept of a text of one byte more.
InkStep(s, c) ==
    IF c \notin Space THEN Append(s, c) ELSE s
InkRule == [x \in Seq(Octet) \X Octet |-> InkStep(x[1], x[2])]
InkEq(f, t) == f = [s \in SUBSET (DOMAIN t) |->
    IF s = {} THEN <<>> ELSE InkStep(f[s \ {Max(s)}], t[Max(s)])]
InkRun(t) == CHOOSE f : InkEq(f, t)
InkOf(x) == Fold(x, <<>>, InkRule)

LEMMA InkTyped ==
    ASSUME NEW s \in Seq(Octet), NEW c \in Octet
    PROVE  InkStep(s, c) \in Seq(Octet)
  BY DEF InkStep

LEMMA InkRuleIs ==
    /\ InkRule \in [Seq(Octet) \X Octet -> Seq(Octet)]
    /\ \A s \in Seq(Octet), c \in Octet : InkRule[<<s, c>>] = InkStep(s, c)
  BY InkTyped DEF InkRule

LEMMA InkIsFold ==
    ASSUME NEW t \in Seq(Octet)
    PROVE  Ink(t) = InkOf(t)
  <1>1. <<>> \in Seq(Octet)
    OBVIOUS
  <1>2. /\ InkRule \in [Seq(Octet) \X Octet -> Seq(Octet)]
        /\ \A s \in Seq(Octet), c \in Octet : InkRule[<<s, c>>] = InkStep(s, c)
    BY InkRuleIs
  <1>3. t \in Seq(Octet) /\ \A n \in DOMAIN t : t[n] \in Octet
    OBVIOUS
  <1>4. InkEq(FoldRun(t, <<>>, InkRule), t)
    <2> DEFINE g == FoldRun(t, <<>>, InkRule)
    <2>1. RunsIn(Seq(Octet), t, <<>>, InkRule)
      BY <1>1, <1>2, <1>3, FoldRuns
    <2>2. /\ g \in [SUBSET (DOMAIN t) -> Seq(Octet)] /\ g[{}] = <<>>
          /\ \A s \in SUBSET (DOMAIN t) :
                s # {} => g[s] = InkStep(g[s \ {Max(s)}], t[Max(s)])
      BY <1>2, <1>3, <2>1 DEF RunsIn
    <2> HIDE DEF g
    <2>3. InkEq(g, t)
      BY <2>2 DEF InkEq
    <2> QED BY <2>3 DEF g
  <1>5. InkEq(InkRun(t), t)
    BY <1>4 DEF InkRun
  <1>6. InkRun(t)[{}] = <<>>
    BY <1>5 DEF InkEq
  <1>7. ASSUME NEW s \in SUBSET (DOMAIN t), s # {}, Max(s) \in DOMAIN t,
               InkRun(t)[s \ {Max(s)}] \in Seq(Octet)
        PROVE  InkRun(t)[s] = InkRule[<<InkRun(t)[s \ {Max(s)}], t[Max(s)]>>]
    <2>1. InkRun(t)[s] = InkStep(InkRun(t)[s \ {Max(s)}], t[Max(s)])
      BY <1>5, <1>7 DEF InkEq
    <2> QED BY <1>2, <1>3, <1>7, <2>1
  <1>8. ComesTo(InkRun(t), Seq(Octet), Octet, t, <<>>, InkRule)
    BY <1>1, <1>2, <1>3, <1>6, <1>7, FoldIs
  <1>9. Ink(t) = InkRun(t)[DOMAIN t]
    BY DEF Ink, Where, FoldLeft, MapThenFoldSet, InkRun, InkEq, InkStep
  <1> QED BY <1>8, <1>9 DEF ComesTo, InkOf

LEMMA InkLaws ==
    /\ InkOf(<<>>) = <<>>
    /\ \A x \in Seq(Octet) : InkOf(x) \in Seq(Octet)
    /\ \A x \in Seq(Octet), c \in Octet :
          InkOf(Append(x, c)) = InkStep(InkOf(x), c)
  <1>1. <<>> \in Seq(Octet)
    OBVIOUS
  <1>2. GoesOn(Seq(Octet), Octet, <<>>, InkRule)
    BY <1>1, InkRuleIs, FoldGoesOn
  <1> QED BY <1>2, InkRuleIs DEF GoesOn, InkOf

\* What is kept of one line more.
GrepStep(p, s, c) ==
    IF Matches(c, p) THEN Append(s, c) ELSE s
GrepRule(p) == [x \in Seq(Text) \X Text |-> GrepStep(p, x[1], x[2])]
GrepEq(p, f, t) == f = [s \in SUBSET (DOMAIN t) |->
    IF s = {} THEN <<>> ELSE GrepStep(p, f[s \ {Max(s)}], t[Max(s)])]
GrepRun(p, t) == CHOOSE f : GrepEq(p, f, t)
GrepOf(p, x) == Fold(x, <<>>, GrepRule(p))

LEMMA GrepTyped ==
    ASSUME NEW p, NEW s \in Seq(Text), NEW c \in Text
    PROVE  GrepStep(p, s, c) \in Seq(Text)
  BY DEF GrepStep

LEMMA GrepRuleIs ==
    ASSUME NEW p
    PROVE  /\ GrepRule(p) \in [Seq(Text) \X Text -> Seq(Text)]
           /\ \A s \in Seq(Text), c \in Text : GrepRule(p)[<<s, c>>] = GrepStep(p, s, c)
  BY GrepTyped DEF GrepRule

LEMMA GrepIsFold ==
    ASSUME NEW p, NEW t \in Seq(Text)
    PROVE  Where(t, LAMBDA l : Matches(l, p)) = GrepOf(p, t)
  <1>1. <<>> \in Seq(Text)
    OBVIOUS
  <1>2. /\ GrepRule(p) \in [Seq(Text) \X Text -> Seq(Text)]
        /\ \A s \in Seq(Text), c \in Text : GrepRule(p)[<<s, c>>] = GrepStep(p, s, c)
    BY GrepRuleIs
  <1>3. t \in Seq(Text) /\ \A n \in DOMAIN t : t[n] \in Text
    OBVIOUS
  <1>4. GrepEq(p, FoldRun(t, <<>>, GrepRule(p)), t)
    <2> DEFINE g == FoldRun(t, <<>>, GrepRule(p))
    <2>1. RunsIn(Seq(Text), t, <<>>, GrepRule(p))
      BY <1>1, <1>2, <1>3, FoldRuns
    <2>2. /\ g \in [SUBSET (DOMAIN t) -> Seq(Text)] /\ g[{}] = <<>>
          /\ \A s \in SUBSET (DOMAIN t) :
                s # {} => g[s] = GrepStep(p, g[s \ {Max(s)}], t[Max(s)])
      BY <1>2, <1>3, <2>1 DEF RunsIn
    <2> HIDE DEF g
    <2>3. GrepEq(p, g, t)
      BY <2>2 DEF GrepEq
    <2> QED BY <2>3 DEF g
  <1>5. GrepEq(p, GrepRun(p, t), t)
    BY <1>4 DEF GrepRun
  <1>6. GrepRun(p, t)[{}] = <<>>
    BY <1>5 DEF GrepEq
  <1>7. ASSUME NEW s \in SUBSET (DOMAIN t), s # {}, Max(s) \in DOMAIN t,
               GrepRun(p, t)[s \ {Max(s)}] \in Seq(Text)
        PROVE  GrepRun(p, t)[s] = GrepRule(p)[<<GrepRun(p, t)[s \ {Max(s)}], t[Max(s)]>>]
    <2>1. GrepRun(p, t)[s] = GrepStep(p, GrepRun(p, t)[s \ {Max(s)}], t[Max(s)])
      BY <1>5, <1>7 DEF GrepEq
    <2> QED BY <1>2, <1>3, <1>7, <2>1
  <1>8. ComesTo(GrepRun(p, t), Seq(Text), Text, t, <<>>, GrepRule(p))
    BY <1>1, <1>2, <1>3, <1>6, <1>7, FoldIs
  <1>9. Where(t, LAMBDA l : Matches(l, p)) = GrepRun(p, t)[DOMAIN t]
    BY DEF Where, FoldLeft, MapThenFoldSet, GrepRun, GrepEq, GrepStep
  <1> QED BY <1>8, <1>9 DEF ComesTo, GrepOf

LEMMA GrepLaws ==
    ASSUME NEW p
    PROVE  /\ GrepOf(p, <<>>) = <<>>
           /\ \A x \in Seq(Text) : GrepOf(p, x) \in Seq(Text)
           /\ \A x \in Seq(Text), c \in Text :
                 GrepOf(p, Append(x, c)) = GrepStep(p, GrepOf(p, x), c)
  <1>1. <<>> \in Seq(Text)
    OBVIOUS
  <1>2. GoesOn(Seq(Text), Text, <<>>, GrepRule(p))
    BY <1>1, GrepRuleIs, FoldGoesOn
  <1> QED BY <1>2, GrepRuleIs DEF GoesOn, GrepOf

\* The same for the lines that have a b.
HavingStep(b, s, c) ==
    IF Count(c, {b}) > 0 THEN Append(s, c) ELSE s
HavingRule(b) == [x \in Seq(Text) \X Text |-> HavingStep(b, x[1], x[2])]
HavingEq(b, f, t) == f = [s \in SUBSET (DOMAIN t) |->
    IF s = {} THEN <<>> ELSE HavingStep(b, f[s \ {Max(s)}], t[Max(s)])]
HavingRun(b, t) == CHOOSE f : HavingEq(b, f, t)
HavingOf(b, x) == Fold(x, <<>>, HavingRule(b))

LEMMA HavingTyped ==
    ASSUME NEW b, NEW s \in Seq(Text), NEW c \in Text
    PROVE  HavingStep(b, s, c) \in Seq(Text)
  BY DEF HavingStep

LEMMA HavingRuleIs ==
    ASSUME NEW b
    PROVE  /\ HavingRule(b) \in [Seq(Text) \X Text -> Seq(Text)]
           /\ \A s \in Seq(Text), c \in Text : HavingRule(b)[<<s, c>>] = HavingStep(b, s, c)
  BY HavingTyped DEF HavingRule

LEMMA HavingIsFold ==
    ASSUME NEW b, NEW t \in Seq(Text)
    PROVE  Having(t, b) = HavingOf(b, t)
  <1>1. <<>> \in Seq(Text)
    OBVIOUS
  <1>2. /\ HavingRule(b) \in [Seq(Text) \X Text -> Seq(Text)]
        /\ \A s \in Seq(Text), c \in Text : HavingRule(b)[<<s, c>>] = HavingStep(b, s, c)
    BY HavingRuleIs
  <1>3. t \in Seq(Text) /\ \A n \in DOMAIN t : t[n] \in Text
    OBVIOUS
  <1>4. HavingEq(b, FoldRun(t, <<>>, HavingRule(b)), t)
    <2> DEFINE g == FoldRun(t, <<>>, HavingRule(b))
    <2>1. RunsIn(Seq(Text), t, <<>>, HavingRule(b))
      BY <1>1, <1>2, <1>3, FoldRuns
    <2>2. /\ g \in [SUBSET (DOMAIN t) -> Seq(Text)] /\ g[{}] = <<>>
          /\ \A s \in SUBSET (DOMAIN t) :
                s # {} => g[s] = HavingStep(b, g[s \ {Max(s)}], t[Max(s)])
      BY <1>2, <1>3, <2>1 DEF RunsIn
    <2> HIDE DEF g
    <2>3. HavingEq(b, g, t)
      BY <2>2 DEF HavingEq
    <2> QED BY <2>3 DEF g
  <1>5. HavingEq(b, HavingRun(b, t), t)
    BY <1>4 DEF HavingRun
  <1>6. HavingRun(b, t)[{}] = <<>>
    BY <1>5 DEF HavingEq
  <1>7. ASSUME NEW s \in SUBSET (DOMAIN t), s # {}, Max(s) \in DOMAIN t,
               HavingRun(b, t)[s \ {Max(s)}] \in Seq(Text)
        PROVE  HavingRun(b, t)[s] = HavingRule(b)[<<HavingRun(b, t)[s \ {Max(s)}], t[Max(s)]>>]
    <2>1. HavingRun(b, t)[s] = HavingStep(b, HavingRun(b, t)[s \ {Max(s)}], t[Max(s)])
      BY <1>5, <1>7 DEF HavingEq
    <2> QED BY <1>2, <1>3, <1>7, <2>1
  <1>8. ComesTo(HavingRun(b, t), Seq(Text), Text, t, <<>>, HavingRule(b))
    BY <1>1, <1>2, <1>3, <1>6, <1>7, FoldIs
  <1>9. Having(t, b) = HavingRun(b, t)[DOMAIN t]
    BY DEF Having, Where, FoldLeft, MapThenFoldSet, HavingRun, HavingEq, HavingStep
  <1> QED BY <1>8, <1>9 DEF ComesTo, HavingOf

LEMMA HavingLaws ==
    ASSUME NEW b
    PROVE  /\ HavingOf(b, <<>>) = <<>>
           /\ \A x \in Seq(Text) : HavingOf(b, x) \in Seq(Text)
           /\ \A x \in Seq(Text), c \in Text :
                 HavingOf(b, Append(x, c)) = HavingStep(b, HavingOf(b, x), c)
  <1>1. <<>> \in Seq(Text)
    OBVIOUS
  <1>2. GoesOn(Seq(Text), Text, <<>>, HavingRule(b))
    BY <1>1, HavingRuleIs, FoldGoesOn
  <1> QED BY <1>2, HavingRuleIs DEF GoesOn, HavingOf

\* Seq(Octet) by its name.
LEMMA TextOf == \A t \in Seq(Octet) : t \in Text
  BY DEF Text

\* The text that ends with place k.
LEMMA UptoNext ==
    ASSUME NEW B, NEW t \in Seq(B), NEW k \in 1..Len(t)
    PROVE  Upto(t, k) = Append(Upto(t, k - 1), t[k])
  <1>1. Len(t) \in Nat /\ k \in 1..Len(t) /\ 1 \in 1..Len(t) /\ k \in 1..Len(t)
    OBVIOUS
  <1>2. SubSeq(t, 1, k) = SubSeq(t, 1, k - 1) \o <<t[k]>>
    BY <1>1, SubSeqRecursiveSecond
  <1>3. SubSeq(t, 1, k - 1) \in Seq(B) /\ t[k] \in B
    <2>1. \A z \in 1..(k - 1) : t[z] \in B
      BY <1>1
    <2> QED BY <1>1, <2>1, SubSeqProperties
  <1> QED BY <1>2, <1>3, AppendIsConcat DEF Upto

\* The beginnings of a text have their lengths and the text's bytes.
LEMMA UptoAll ==
    ASSUME NEW B, NEW t \in Seq(B)
    PROVE  /\ Upto(t, 0) = <<>> /\ Upto(t, Len(t)) = t
           /\ \A k \in 0..Len(t) :
                 /\ Upto(t, k) \in Seq(B) /\ Len(Upto(t, k)) = k
                 /\ \A m \in 1..k : Upto(t, k)[m] = t[m]
  <1>1. Upto(t, 0) = <<>>
    BY SubSeqEmpty DEF Upto
  <1>2. Upto(t, Len(t)) = t
    BY SubSeqFull DEF Upto
  <1>3. ASSUME NEW k \in 0..Len(t)
        PROVE  /\ Upto(t, k) \in Seq(B) /\ Len(Upto(t, k)) = k
               /\ \A m \in 1..k : Upto(t, k)[m] = t[m]
    <2>1. \A z \in 1..k : t[z] \in B
      OBVIOUS
    <2>2. k \in Nat /\ k \in Int /\ 1 \in Int
      OBVIOUS
    <2>3. /\ SubSeq(t, 1, k) \in Seq(B)
          /\ Len(SubSeq(t, 1, k)) = IF 1 <= k THEN k - 1 + 1 ELSE 0
          /\ \A z \in 1..(k - 1 + 1) : SubSeq(t, 1, k)[z] = t[1 + z - 1]
      BY <2>1, <2>2, SubSeqProperties
    <2>4. (IF 1 <= k THEN k - 1 + 1 ELSE 0) = k /\ 1..(k - 1 + 1) = 1..k
      BY <2>2
    <2>5. \A z \in 1..k : 1 + z - 1 = z
      BY <2>2
    <2> QED BY <2>3, <2>4, <2>5 DEF Upto
  <1> QED BY <1>1, <1>2, <1>3

-----------------------------------------------------------------------------
(* Counting *)

\* Nothing is in the empty text.
LEMMA CountEmpty == \A S : Count(<<>>, S) = 0
  <1> SUFFICES ASSUME NEW S PROVE Count(<<>>, S) = 0
    OBVIOUS
  <1>1. {n \in DOMAIN <<>> : <<>>[n] \in S} = {}
    OBVIOUS
  <1> QED BY <1>1, FS_EmptySet DEF Count

\* One byte more is counted if it is in S.
LEMMA CountNext ==
    ASSUME NEW B, NEW t \in Seq(B), NEW c \in B, NEW S
    PROVE  /\ Count(t, S) \in Nat
           /\ Count(Append(t, c), S) = Count(t, S) + (IF c \in S THEN 1 ELSE 0)
  <1> DEFINE M == {n \in DOMAIN t : t[n] \in S}
  <1> DEFINE N == {n \in DOMAIN Append(t, c) : Append(t, c)[n] \in S}
  <1>1. /\ Len(t) \in Nat /\ DOMAIN t = 1..Len(t) /\ DOMAIN Append(t, c) = 1..(Len(t) + 1)
        /\ Append(t, c)[Len(t) + 1] = c /\ \A k \in 1..Len(t) : Append(t, c)[k] = t[k]
    BY AppendProperties
  <1>2. IsFiniteSet(M)
    <2>1. IsFiniteSet(1..Len(t)) /\ M \subseteq 1..Len(t)
      BY <1>1, FS_Interval
    <2> HIDE DEF M
    <2> QED BY <2>1, FS_Subset
  <1>3. Len(t) + 1 \notin M
    BY <1>1
  <1>4. N = IF c \in S THEN M \cup {Len(t) + 1} ELSE M
    BY <1>1
  <1>5. Count(t, S) = Cardinality(M) /\ Count(Append(t, c), S) = Cardinality(N)
    BY DEF Count
  <1> HIDE DEF M, N
  <1>6. Cardinality(M) \in Nat
    BY <1>2, FS_CardinalityType
  <1>7. Cardinality(M \cup {Len(t) + 1}) = Cardinality(M) + 1
    BY <1>2, <1>3, FS_AddElement
  <1> QED BY <1>4, <1>5, <1>6, <1>7

-----------------------------------------------------------------------------
(* Sequences of sequences in one *)

FlatRule(S) == [x \in Seq(S) \X Seq(S) |-> x[1] \o x[2]]
FlatEq(f, ss) ==
    f = [z \in 1..Len(ss) |-> IF z = 1 THEN ss[z] ELSE f[z - 1] \o ss[z]]
FlatRun(ss) == CHOOSE f : FlatEq(f, ss)

\* The rule has its type.
LEMMA FlatRuleIs ==
    ASSUME NEW S
    PROVE  /\ FlatRule(S) \in [Seq(S) \X Seq(S) -> Seq(S)]
           /\ \A s, u \in Seq(S) : FlatRule(S)[<<s, u>>] = s \o u
  <1> DEFINE W == Seq(S)
  <1>1. \A s, u \in W : s \o u \in W
    OBVIOUS
  <1>2. FlatRule(S) = [x \in W \X W |-> x[1] \o x[2]]
    BY DEF FlatRule
  <1> HIDE DEF W
  <1>3. FlatRule(S) \in [W \X W -> W] /\ \A s, u \in W : FlatRule(S)[<<s, u>>] = s \o u
    BY <1>1, <1>2
  <1> QED BY <1>3 DEF W

\* FlattenSeq is a fold of the concatenation.
LEMMA FlatIsFold ==
    ASSUME NEW S, NEW ss \in Seq(Seq(S))
    PROVE  FlattenSeq(ss) = Fold(ss, <<>>, FlatRule(S))
  <1> DEFINE W == Seq(S)
  <1> DEFINE F == FlatRule(S)
  <1> DEFINE P(k) == Fold(Upto(ss, k), <<>>, F)
  <1>1. /\ <<>> \in W /\ F \in [W \X W -> W]
        /\ \A s, u \in W : F[<<s, u>>] = s \o u
    <2>1. <<>> \in W
      OBVIOUS
    <2> QED BY <2>1, FlatRuleIs
  <1> HIDE DEF F
  <1>2. GoesOn(W, W, <<>>, F)
    <2> HIDE DEF W
    <2> QED BY <1>1, FoldGoesOn
  <1>3. Len(ss) \in Nat /\ \A k \in 1..Len(ss) : ss[k] \in W
    OBVIOUS
  <1>4. ss \in Seq(W)
    OBVIOUS
  <1>5. /\ Upto(ss, 0) = <<>> /\ Upto(ss, Len(ss)) = ss
        /\ \A k \in 0..Len(ss) : Upto(ss, k) \in Seq(W)
    <2> HIDE DEF W
    <2> QED BY <1>4, UptoAll
  <1>6. \A k \in 1..Len(ss) : Upto(ss, k) = Append(Upto(ss, k - 1), ss[k])
    <2> HIDE DEF W
    <2> QED BY <1>4, UptoNext
  <1>7. P(0) = <<>>
    BY <1>2, <1>5 DEF GoesOn
  <1>8. ASSUME NEW k \in 1..Len(ss) PROVE P(k) = P(k - 1) \o ss[k] /\ P(k - 1) \in W /\ P(k) \in W
    <2>1. k - 1 \in 0..Len(ss) /\ k \in 0..Len(ss)
      BY <1>3
    <2> HIDE DEF W
    <2>2. P(k - 1) \in W /\ P(k) \in W
      BY <1>2, <1>5, <2>1 DEF GoesOn
    <2>3. P(k) = F[<<P(k - 1), ss[k]>>]
      BY <1>2, <1>3, <1>5, <1>6, <2>1 DEF GoesOn
    <2> QED BY <1>1, <1>3, <2>2, <2>3
  <1> DEFINE g == [z \in 1..Len(ss) |-> P(z)]
  <1>9. FlatEq(g, ss)
    <2>1. ASSUME NEW z \in 1..Len(ss)
          PROVE  P(z) = IF z = 1 THEN ss[z] ELSE g[z - 1] \o ss[z]
      <3>1. CASE z = 1
        <4> HIDE DEF P
        <4>1. P(z) = P(z - 1) \o ss[z]
          BY <1>8
        <4>2. P(z) = <<>> \o ss[z]
          <5>1. z - 1 = 0
            BY <3>1
          <5>2. P(z - 1) = <<>>
            BY <1>7, <5>1, Zenon
          <5> QED BY <4>1, <5>2
        <4> QED BY <1>3, <3>1, <4>2
      <3>2. CASE z # 1
        <4>1. z - 1 \in 1..Len(ss)
          BY <3>2
        <4> HIDE DEF P
        <4> QED BY <1>8, <3>2, <4>1
      <3> QED BY <3>1, <3>2
    <2>2. g = [z \in 1..Len(ss) |-> IF z = 1 THEN ss[z] ELSE g[z - 1] \o ss[z]]
      <3> HIDE DEF P
      <3> QED BY <2>1
    <2> HIDE DEF g
    <2> QED BY <2>2 DEF FlatEq
  <1> HIDE DEF g
  <1>10. FlatEq(FlatRun(ss), ss)
    BY <1>9 DEF FlatRun
  <1> DEFINE f == FlatRun(ss)
  <1>11. f = [z \in 1..Len(ss) |-> IF z = 1 THEN ss[z] ELSE f[z - 1] \o ss[z]]
    BY <1>10 DEF FlatEq
  <1> DEFINE M == {n \in Nat : n = 0 \/ f[n] = P(n)}
  <1>12. 0 \in M
    OBVIOUS
  <1>13. ASSUME NEW n \in 0..(Len(ss) - 1), n \in M PROVE n + 1 \in M
    <2> HIDE DEF P, f, W
    <2>1. n \in Nat /\ n + 1 \in 1..Len(ss) /\ (n + 1) - 1 = n /\ n + 1 \in Nat
      BY <1>3
    <2>2. P(n + 1) = P(n) \o ss[n + 1]
      BY <1>8, <2>1
    <2>3. f[n + 1] = IF n + 1 = 1 THEN ss[n + 1] ELSE f[n] \o ss[n + 1]
      BY <1>11, <2>1
    <2>4. CASE n = 0
      <3>1. P(n + 1) = <<>> \o ss[n + 1] /\ ss[n + 1] \in W
        BY <1>3, <1>7, <2>1, <2>2, <2>4
      <3>2. <<>> \o ss[n + 1] = ss[n + 1]
        BY <3>1 DEF W
      <3> QED BY <2>1, <2>3, <2>4, <3>1, <3>2
    <2>5. CASE n # 0
      <3>1. f[n] = P(n)
        BY <1>13, <2>5
      <3>2. n + 1 # 1
        BY <2>1, <2>5
      <3> QED BY <2>1, <2>2, <2>3, <3>1, <3>2
    <2> QED BY <2>4, <2>5
  <1>14. 0..Len(ss) \subseteq M
    <2>1. M \in SUBSET Nat
      OBVIOUS
    <2> HIDE DEF M
    <2> QED BY <1>3, <1>12, <1>13, <2>1, InductionTo
  <1>15. Len(ss) # 0 => f[Len(ss)] = P(Len(ss))
    <2> HIDE DEF P, f
    <2>1. Len(ss) \in M
      BY <1>3, <1>14
    <2> QED BY <2>1
  <1>16. FlattenSeq(ss) = IF Len(ss) = 0 THEN ss ELSE FlatRun(ss)[Len(ss)]
    BY DEF FlattenSeq, FlatRun, FlatEq
  <1>17. P(Len(ss)) = Fold(ss, <<>>, F)
    BY <1>5
  <1>18. Len(ss) = 0 => ss = <<>>
    OBVIOUS
  <1> HIDE DEF P, M
  <1>19. CASE Len(ss) = 0
    <2>1. ss = <<>> /\ FlattenSeq(ss) = <<>>
      BY <1>16, <1>18, <1>19
    <2>2. Fold(<<>>, <<>>, F) = <<>>
      BY <1>2 DEF GoesOn
    <2> QED BY <2>1, <2>2 DEF F
  <1>20. CASE Len(ss) # 0
    BY <1>15, <1>16, <1>17, <1>20 DEF F
  <1> QED BY <1>19, <1>20

Flat(S) ==
    /\ FlattenSeq(<<>>) = <<>>
    /\ \A ss \in Seq(Seq(S)) : FlattenSeq(ss) \in Seq(S)
    /\ \A ss \in Seq(Seq(S)), s \in Seq(S) : FlattenSeq(Append(ss, s)) = FlattenSeq(ss) \o s

\* FlattenSeq of nothing, of one sequence more, and of two halves.
LEMMA FlatLaws ==
    ASSUME NEW S
    PROVE  Flat(S)
  <1> DEFINE W == Seq(S)
  <1>1. /\ <<>> \in W /\ FlatRule(S) \in [W \X W -> W]
        /\ \A s, u \in W : FlatRule(S)[<<s, u>>] = s \o u
    <2>1. <<>> \in W
      OBVIOUS
    <2> QED BY <2>1, FlatRuleIs
  <1>2. GoesOn(W, W, <<>>, FlatRule(S))
    <2> HIDE DEF W
    <2> QED BY <1>1, FoldGoesOn
  <1>3. \A ss \in Seq(W) : FlattenSeq(ss) = Fold(ss, <<>>, FlatRule(S))
    BY FlatIsFold
  <1>4. <<>> \in Seq(W) /\ \A ss \in Seq(W), s \in W : Append(ss, s) \in Seq(W)
    OBVIOUS
  <1> HIDE DEF W
  <1>5. /\ FlattenSeq(<<>>) = <<>>
        /\ \A ss \in Seq(W) : FlattenSeq(ss) \in W
    BY <1>2, <1>3, <1>4 DEF GoesOn
  <1>6. ASSUME NEW ss \in Seq(W), NEW s \in W
        PROVE  FlattenSeq(Append(ss, s)) = FlattenSeq(ss) \o s
    <2>1. FlattenSeq(Append(ss, s)) = FlatRule(S)[<<FlattenSeq(ss), s>>]
      BY <1>2, <1>3, <1>4 DEF GoesOn
    <2> QED BY <1>1, <1>5, <2>1
  <1> QED BY <1>5, <1>6 DEF Flat, W

-----------------------------------------------------------------------------
(* Types, and the steps of the main programs *)

\* Bytes in whatever range JobsAssumption gives them are a text.
LEMMA Bytes == Seq(NonZero) \subseteq Text /\ Seq(Ascii) \subseteq Text /\ Seq(Octet) = Text
  <1>1. ASSUME NEW m \in Octet PROVE 1..m \subseteq Octet
    BY Octets
  <1>2. 255 \in Octet /\ 127 \in Octet
    BY Octets
  <1>3. NonZero \subseteq Octet
    BY <1>1, <1>2 DEF NonZero
  <1>4. Ascii \subseteq Octet
    BY <1>1, <1>2 DEF Ascii
  <1>5. ASSUME NEW S, S \subseteq Octet PROVE Seq(S) \subseteq Text
    BY <1>5, SeqMonotonic DEF Text
  <1>6. Seq(NonZero) \subseteq Text /\ Seq(Ascii) \subseteq Text
    BY <1>3, <1>4, <1>5, Zenon
  <1> QED BY <1>6, Zenon DEF Text

Files == {"f1", "f2", "stdin", "dir"}

JobTyped ==
    /\ ops \in Seq(STRING) /\ Len(ops) \in Nat
    /\ \A f \in Files : job.text[f] \in Text
    /\ tool = "head" => par \in {<<>>} \cup Int \X (Nat \cup {-1})
    /\ tool = "tr" => par \in Text \X Text
    /\ tool = "grep" => par \in Text

\* The texts, the operands and the parameters of a job have their types.
LEMMA JobTypes ==
    ASSUME job \in Jobs
    PROVE  JobTyped
  <1>1. job.ops \in Seq(STRING)
    BY JobsAssumption, Zenon
  <1>2. ASSUME NEW f \in Files PROVE job.text[f] \in Text
    <2>1. job.text \in [Files -> Seq(IF job.tool \in {"grep", "nl"} THEN NonZero ELSE Octet)]
      BY JobsAssumption, Zenon DEF Files
    <2>2. job.text[f] \in Seq(IF job.tool \in {"grep", "nl"} THEN NonZero ELSE Octet)
      BY <2>1, Zenon
    <2>3. job.text[f] \in Seq(NonZero) \/ job.text[f] \in Seq(Octet)
      BY <2>2, Zenon
    <2> QED BY <2>3, Bytes, Zenon
  <1>3. job.tool = "head" => job.par \in {<<>>} \cup Int \X (Nat \cup {-1})
    BY JobsAssumption, Zenon
  <1>4. job.tool = "tr" => job.par \in Text \X Text
    <2>1. job.tool = "tr" => job.par \in Seq(Ascii) \X Seq(Ascii)
      BY JobsAssumption, Zenon
    <2>2. Seq(Ascii) \subseteq Text
      BY Bytes, Zenon
    <2> HIDE DEF Text
    <2>3. ASSUME NEW S, NEW p, S \subseteq Text, p \in S \X S PROVE p \in Text \X Text
      BY <2>3
    <2> QED BY <2>1, <2>2, <2>3, Zenon
  <1>5. job.tool = "grep" => job.par \in Text
    <2>1. job.tool = "grep" => job.par \in Seq(NonZero)
      BY JobsAssumption, Zenon
    <2> QED BY <2>1, Bytes, Zenon
  <1>6. Len(job.ops) \in Nat
    BY <1>1
  <1> QED BY <1>1, <1>2, <1>3, <1>4, <1>5, <1>6, Zenon DEF JobTyped, ops, tool, par

\* What is handled was opened, and nothing is left over at the end.
Base ==
    /\ job \in Jobs
    /\ arg \in 1..(Len(ops) + 1)
    /\ pc \in {"main", "ok", "failed", "fault", "spin"}
    /\ \A k \in 1..(arg - 1) : Opens(ops[k])
    /\ pc = "ok" /\ ~Helped /\ tool # "cmp" => arg = Len(ops) + 1

Bad == {"failed", "fault", "spin"}

Breaks ==
    /\ pc = "main" /\ pc' \in Bad /\ UNCHANGED <<job, arg>>
    /\ tool = "sum" => out' = out

Helps ==
    pc = "main" /\ Helped /\ pc' \in {"ok", "failed"} /\ UNCHANGED <<job, arg, out>>

\* What the tools make of an operand.
Made(items) ==
    /\ tool # "cmp"
    /\ tool = "cat" => items = Cat(T)
    /\ tool = "wc" => items = Wc(T)
    /\ tool = "sum" => items = Sum(T)
    /\ tool = "od" => items = Od(T)
    /\ tool = "tr" => Len(par[1]) = Len(par[2]) /\ items = Tr(T, par[1], par[2])
    /\ tool = "head" => items = Upto(T, HeadEnd(T, par[1]).bytes)
    /\ tool = "grep" /\ T # <<>> => items = Grep(T, par)
    /\ tool = "nl" /\ T # <<>> => items = Nl(T)

Handles(items) ==
    /\ pc = "main" /\ ~Helped /\ arg <= Len(ops) /\ Opens(ops[arg])
    /\ Made(items)
    /\ out' = out \o items /\ arg' = arg + 1 /\ UNCHANGED <<job, pc>>

Compares ==
    /\ pc = "main" /\ ~Helped /\ tool = "cmp" /\ arg = 1 /\ Opens(ops[1]) /\ Opens(ops[2])
    /\ pc' = "ok" /\ out' = out \o Cmp(job.text[ops[1]], job.text[ops[2]])
    /\ UNCHANGED <<job, arg>>

TakesInput ==
    /\ pc = "main" /\ ~Helped /\ ops = <<>> /\ tool \in {"cat", "wc"}
    /\ pc' = "ok" /\ UNCHANGED <<job, arg>>
    /\ out' = out \o (IF tool = "cat" THEN Cat(job.text.stdin) ELSE Wc(job.text.stdin))

Ends ==
    /\ pc = "main" /\ ~Helped /\ arg > Len(ops) /\ ~(ops = <<>> /\ tool \in {"cat", "wc"})
    /\ pc' = "ok" /\ out' = out \o <<>> /\ UNCHANGED <<job, arg>>

Steps ==
    \/ UNCHANGED vars
    \/ Breaks \/ Helps \/ Compares \/ TakesInput \/ Ends
    \/ \E items : Handles(items)

\* A tool that goes on has handled the operand in hand, and appended to its
\* output.
LEMMA EmitHandles ==
    ASSUME NEW t, Given(t), NEW items, Made(items), Emit(items)
    PROVE  Steps
  BY DEF Given, InHand, Emit, Handles, Steps

\* Every step of the main programs is one of Steps.
LEMMA NextSteps == [Next]_vars => Steps
  <1>1. Usage => Steps
    BY DEF Usage, Steps, Helps
  <1>2. NotOpened => Steps
    BY DEF NotOpened, Steps, Breaks, Bad
  <1>3. Stdin => Steps
    BY DEF Stdin, Stop, Steps, TakesInput, Helped, Needed
  <1>4. Finish => Steps
    BY DEF Finish, Stop, Steps, Ends
  <1>5. CmpFiles => Steps
    BY DEF CmpFiles, Given, InHand, Stop, T, Steps, Compares
  <1>6. CatFile => Steps
    BY EmitHandles DEF CatFile, Made, Given, InHand
  <1>7. WcFile => Steps
    BY EmitHandles DEF WcFile, Made, Given, InHand
  <1>8. SumFile => Steps
    BY EmitHandles DEF SumFile, Made, Given, InHand
  <1>9. OdFile => Steps
    BY EmitHandles DEF OdFile, Made, Given, InHand
  <1>10. TrFile => Steps
    <2>1. Given("tr") /\ Stop("failed", <<>>) => Steps
      BY DEF Given, InHand, Stop, Steps, Breaks, Bad
    <2>2. Given("tr") /\ Len(par[1]) = Len(par[2]) /\ Emit(Tr(T, par[1], par[2])) => Steps
      BY EmitHandles DEF Made, Given, InHand
    <2> QED BY <2>1, <2>2 DEF TrFile
  <1>11. HeadFile => Steps
    <2>1. ASSUME NEW how \in Bad, Given("head"), Stop(how, <<>>) PROVE Steps
      BY <2>1 DEF Given, InHand, Stop, Steps, Breaks, Bad
    <2>2. Given("head") /\ Emit(Upto(T, HeadEnd(T, par[1]).bytes)) => Steps
      BY EmitHandles DEF Made, Given, InHand
    <2> QED BY <2>1, <2>2 DEF HeadFile, Bad
  <1>12. TailFile => Steps
    BY DEF TailFile, Given, InHand, Stop, Steps, Breaks, Bad
  <1>13. GrepFile => Steps
    <2>1. ASSUME NEW how \in Bad, Given("grep"), Stop(how, <<>>) PROVE Steps
      BY <2>1 DEF Given, InHand, Stop, Steps, Breaks, Bad
    <2>2. Given("grep") /\ Emit(Grep(T, par)) => Steps
      BY EmitHandles DEF Made, Given, InHand
    <2>3. Given("grep") /\ T = <<>> /\ Emit(Garbage) => Steps
      BY EmitHandles DEF Made, Given, InHand
    <2> QED BY <2>1, <2>2, <2>3 DEF GrepFile, Bad
  <1>14. NlFile => Steps
    <2>1. Given("nl") /\ Stop("fault", <<>>) => Steps
      BY DEF Given, InHand, Stop, Steps, Breaks, Bad
    <2>2. Given("nl") /\ T = <<>> /\ Emit(Garbage) => Steps
      BY EmitHandles DEF Made, Given, InHand
    <2>3. Given("nl") /\ T # <<>> /\ Emit(Nl(T)) => Steps
      BY EmitHandles DEF Made, Given, InHand
    <2> QED BY <2>1, <2>2, <2>3 DEF NlFile
  <1>15. CksumFile => Steps
    <2>1. Given("cksum") /\ Stop("fault", <<>>) => Steps
      BY DEF Given, InHand, Stop, Steps, Breaks, Bad
    <2>2. ASSUME NEW items, Given("cksum"), Emit(items) PROVE Steps
      BY <2>2, EmitHandles DEF Made, Given, InHand
    <2> QED BY <2>1, <2>2 DEF CksumFile
  <1>16. UNCHANGED vars => Steps
    BY DEF Steps
  <1> QED BY <1>1, <1>2, <1>3, <1>4, <1>5, <1>6, <1>7, <1>8, <1>9, <1>10, <1>11, <1>12,
             <1>13, <1>14, <1>15, <1>16 DEF Next

\* Nothing that depends on the job alone changes.
LEMMA SameJob ==
    ASSUME job' = job
    PROVE  /\ tool' = tool /\ ops' = ops /\ par' = par
           /\ (Helped' <=> Helped)
           /\ Input' = Input
  BY DEF tool, ops, par, Helped, Needed, Input

\* Base holds when a job starts.
LEMMA InitBase == Init => Base
  <1> SUFFICES ASSUME Init PROVE Base
    OBVIOUS
  <1>1. JobTyped
    BY JobTypes DEF Init
  <1> QED BY <1>1 DEF Init, Base, JobTyped

\* And every step keeps it.
LEMMA StepsBase ==
    ASSUME Base, Steps
    PROVE  Base' /\ job' = job
  <1>0. JobTyped
    BY JobTypes DEF Base
  <1>1. job' = job
    BY DEF Steps, Breaks, Helps, Compares, TakesInput, Ends, Handles, vars
  <1>2. /\ tool' = tool /\ ops' = ops /\ par' = par /\ (Helped' <=> Helped)
    BY <1>1, SameJob
  <1>3. CASE UNCHANGED vars
    BY <1>1, <1>2, <1>3 DEF Base, Opens, vars
  <1>4. CASE Breaks
    BY <1>1, <1>2, <1>4 DEF Breaks, Base, Opens, Bad
  <1>5. CASE Helps
    BY <1>1, <1>2, <1>5 DEF Helps, Base, Opens
  <1>6. CASE Compares
    BY <1>1, <1>2, <1>6 DEF Compares, Base, Opens
  <1>7. CASE TakesInput
    <2>1. Len(ops) = 0 /\ arg' = arg
      BY <1>7 DEF TakesInput
    <2>2. arg = Len(ops) + 1
      BY <2>1 DEF Base
    <2> QED BY <1>1, <1>2, <1>7, <2>2 DEF TakesInput, Base, Opens
  <1>8. CASE Ends
    <2>1. arg = Len(ops) + 1
      BY <1>0, <1>8 DEF Base, Ends, JobTyped
    <2> QED BY <1>1, <1>2, <1>8, <2>1 DEF Ends, Base, Opens
  <1>9. CASE \E items : Handles(items)
    <2>1. /\ arg' = arg + 1 /\ pc = "main" /\ pc' = pc /\ arg \in 1..Len(ops) /\ Opens(ops[arg])
      BY <1>0, <1>9 DEF Handles, Base, JobTyped
    <2>2. \A k \in 1..(arg' - 1) : k = arg \/ k \in 1..(arg - 1)
      BY <1>0, <2>1 DEF JobTyped
    <2>3. \A k \in 1..(arg' - 1) : Opens(ops[k])
      BY <2>1, <2>2 DEF Base
    <2>4. arg' \in 1..(Len(ops) + 1)
      BY <1>0, <2>1 DEF JobTyped
    <2> QED BY <1>1, <1>2, <2>1, <2>3, <2>4 DEF Base, Opens
  <1> QED BY <1>1, <1>3, <1>4, <1>5, <1>6, <1>7, <1>8, <1>9 DEF Steps

\* The operand in hand is a file, unless it is cksum that reads a directory.
LEMMA InHandTyped ==
    ASSUME Base, NEW k \in 1..Len(ops), Opens(ops[k])
    PROVE  ops[k] \in Files /\ job.text[ops[k]] \in Text
  <1>1. ops[k] \in Files
    BY DEF Opens, Files
  <1> QED BY <1>1, JobTypes DEF Base, JobTyped

-----------------------------------------------------------------------------
(* sum *)

\* The checksums of the operands, one after the other.
SumsSeen ==
    tool = "sum" =>
        /\ out \in Seq(Word)
        /\ pc \in {"main", "ok"} /\ ~Helped =>
              /\ Len(out) = arg - 1
              /\ \A k \in 1..(arg - 1) : out[k] = SumOf(job.text[ops[k]])

\* sum's rows are sums of the files that were handled.
LEMMA StepsSums ==
    ASSUME Base, Steps, SumsSeen
    PROVE  SumsSeen'
  <1>1. job' = job
    BY StepsBase
  <1>2. /\ tool' = tool /\ ops' = ops /\ (Helped' <=> Helped)
    BY <1>1, SameJob
  <1> SUFFICES ASSUME tool = "sum" PROVE SumsSeen'
    BY <1>2 DEF SumsSeen
  <1>3. CASE UNCHANGED vars
    BY <1>1, <1>2, <1>3 DEF SumsSeen, vars
  <1>4. CASE Breaks
    BY <1>1, <1>2, <1>4 DEF Breaks, SumsSeen, Bad
  <1>5. CASE Helps
    BY <1>1, <1>2, <1>5 DEF Helps, SumsSeen
  <1>6. CASE Compares
    BY <1>6 DEF Compares
  <1>7. CASE TakesInput
    BY <1>7 DEF TakesInput
  <1>8. CASE Ends
    <2>1. out' = out
      BY <1>8 DEF Ends, SumsSeen
    <2> QED BY <1>1, <1>2, <1>8, <2>1 DEF Ends, SumsSeen
  <1>9. ASSUME NEW items, Handles(items) PROVE SumsSeen'
    <2>1. /\ arg' = arg + 1 /\ pc = "main" /\ pc' = pc /\ arg \in 1..Len(ops) /\ Opens(ops[arg])
          /\ ~Helped /\ out' = out \o Sum(T)
      BY <1>9, JobTypes DEF Handles, Base, JobTyped, Made
    <2>2. T \in Text
      BY <2>1, InHandTyped DEF T
    <2>3. Sum(T) = <<SumOf(T)>> /\ SumOf(T) \in Word
      BY <2>2, SumIsFold, SumLaws DEF Text
    <2>4. out \in Seq(Word) /\ Len(out) = arg - 1
      BY <2>1 DEF SumsSeen
    <2> DEFINE w == SumOf(T)
    <2> HIDE DEF w
    <2>5. out' = out \o <<w>> /\ w \in Word
      BY <2>1, <2>3 DEF w
    <2>6. /\ out' \in Seq(Word) /\ Len(out') = arg
          /\ \A k \in 1..(arg - 1) : out'[k] = out[k]
          /\ out'[arg] = w
      BY <2>1, <2>4, <2>5
    <2>7. ASSUME NEW k \in 1..arg PROVE out'[k] = SumOf(job.text[ops[k]])
      <3>1. CASE k = arg
        BY <2>6, <3>1 DEF w, T
      <3>2. CASE k # arg
        <4>1. k \in 1..(arg - 1)
          BY <2>1, <3>2
        <4> QED BY <2>1, <2>6, <4>1 DEF SumsSeen
      <3> QED BY <3>1, <3>2
    <2>8. arg' - 1 = arg
      BY <2>1
    <2> QED BY <1>1, <1>2, <2>6, <2>7, <2>8 DEF SumsSeen
  <1> QED BY <1>3, <1>4, <1>5, <1>6, <1>7, <1>8, <1>9 DEF Steps

\* Base and SumsSeen hold always.
LEMMA AllBase == Spec => [](Base /\ SumsSeen)
  <1>1. Init => Base /\ SumsSeen
    BY InitBase DEF Init, SumsSeen
  <1>2. Base /\ SumsSeen /\ [Next]_vars => (Base /\ SumsSeen)'
    BY NextSteps, StepsBase, StepsSums
  <1> QED BY <1>1, <1>2, PTL DEF Spec

\* The state has its types, no operand is handled twice, and what sum prints
\* fits into 16 bits (sum.c:46-48).
THEOREM TextTypes == Spec => []TypeOK
  <1>1. Base /\ SumsSeen => TypeOK
    BY DEF Base, SumsSeen, TypeOK
  <1> QED BY <1>1, AllBase, PTL

\* Two numbers with the same rest, less than twice 65536, are equal or 65536 apart.
LEMMA SameRest ==
    \A x, y \in Nat : x < 131072 /\ y < 131072 /\ x % 65536 = y % 65536 =>
        x = y \/ x = y + 65536 \/ y = x + 65536
  <1>1. \A x \in Nat : \E q \in Nat : x = 65536 * q + (x % 65536) /\ 0 <= x % 65536
                                      /\ x % 65536 < 65536 /\ x % 65536 \in Nat
    OBVIOUS
  <1>2. \A x, y, p, q, r \in Nat :
            x = 65536 * p + r /\ y = 65536 * q + r /\ x < 131072 /\ y < 131072 =>
               x = y \/ x = y + 65536 \/ y = x + 65536
    OBVIOUS
  <1> SUFFICES ASSUME NEW x \in Nat, NEW y \in Nat, x < 131072, y < 131072, x % 65536 = y % 65536
               PROVE  x = y \/ x = y + 65536 \/ y = x + 65536
    OBVIOUS
  <1>3. PICK p \in Nat : x = 65536 * p + (x % 65536) /\ x % 65536 \in Nat
    BY <1>1
  <1>4. PICK q \in Nat : y = 65536 * q + (y % 65536)
    BY <1>1
  <1>5. PICK r \in Nat : r = x % 65536
    BY <1>3
  <1>6. x = 65536 * p + r /\ y = 65536 * q + r
    BY <1>3, <1>4, <1>5
  <1> QED BY <1>2, <1>6

Rotated(s) == s \div 2 + (s % 2) * 32768

\* The rotation loses nothing.
LEMMA Rotation ==
    /\ \A s \in Word : Rotated(s) \in Nat /\ Rotated(s) < 65536
    /\ \A s, r \in Word : Rotated(s) = Rotated(r) => s = r
  <1>1. \A x \in Nat : x = 2 * (x \div 2) + (x % 2) /\ x % 2 \in {0, 1} /\ x \div 2 \in Nat
    OBVIOUS
  <1>2. \A s, q, b \in Nat : b \in {0, 1} /\ s = 2 * q + b /\ s < 65536 =>
            q + b * 32768 \in Nat /\ q + b * 32768 < 65536
    OBVIOUS
  <1>3. \A s, q, b, r, p, d \in Nat :
            /\ b \in {0, 1} /\ s = 2 * q + b /\ s < 65536
            /\ d \in {0, 1} /\ r = 2 * p + d /\ r < 65536
            /\ q + b * 32768 = p + d * 32768
            => s = r
    OBVIOUS
  <1>4. ASSUME NEW s \in Word
        PROVE  \E q, b \in Nat : b \in {0, 1} /\ s = 2 * q + b /\ Rotated(s) = q + b * 32768
    <2>1. s \in Nat
      BY Words
    <2>2. s \div 2 \in Nat /\ s % 2 \in Nat
      BY <1>1, <2>1
    <2> QED BY <1>1, <2>1, <2>2 DEF Rotated
  <1>5. ASSUME NEW s \in Word PROVE Rotated(s) \in Nat /\ Rotated(s) < 65536
    BY <1>2, <1>4, Words
  <1>6. ASSUME NEW s \in Word, NEW r \in Word, Rotated(s) = Rotated(r) PROVE s = r
    <2>1. PICK q, b \in Nat : b \in {0, 1} /\ s = 2 * q + b /\ Rotated(s) = q + b * 32768
      BY <1>4
    <2>2. PICK p, d \in Nat : d \in {0, 1} /\ r = 2 * p + d /\ Rotated(r) = p + d * 32768
      BY <1>4
    <2>3. s \in Nat /\ s < 65536 /\ r \in Nat /\ r < 65536
      BY Words
    <2>4. q + b * 32768 = p + d * 32768
      BY <1>6, <2>1, <2>2
    <2> QED BY <1>3, <2>1, <2>2, <2>3, <2>4
  <1> QED BY <1>5, <1>6

\* From different sums the same byte makes different ones, and so do different
\* bytes from the same.
LEMMA SumStepTells ==
    ASSUME NEW s \in Word, NEW r \in Word, NEW c \in Octet, NEW d \in Octet,
           (s = r /\ c # d) \/ (s # r /\ c = d)
    PROVE  SumStep(s, c) # SumStep(r, d)
  <1>1. PICK x \in Nat : x = Rotated(s) + c /\ x < 65792
    BY Rotation, Octets
  <1>2. PICK y \in Nat : y = Rotated(r) + d /\ y < 65792
    BY Rotation, Octets
  <1>3. x # y /\ x # y + 65536 /\ y # x + 65536
    <2>1. /\ Rotated(s) \in Nat /\ Rotated(s) < 65536 /\ Rotated(r) \in Nat /\ Rotated(r) < 65536
          /\ c \in Nat /\ c < 256 /\ d \in Nat /\ d < 256
      BY Rotation, Octets
    <2>2. Rotated(s) = Rotated(r) => s = r
      BY Rotation
    <2> QED BY <1>1, <1>2, <2>1, <2>2
  <1>4. x % 65536 # y % 65536
    <2>1. x < 131072 /\ y < 131072
      BY <1>1, <1>2
    <2> QED BY <1>3, <2>1, SameRest
  <1>5. SumStep(s, c) = x % 65536 /\ SumStep(r, d) = y % 65536
    BY <1>1, <1>2 DEF SumStep, Rotated
  <1> QED BY <1>4, <1>5

\* One byte makes the difference from where it is on.
LEMMA SumDiffers ==
    ASSUME NEW t \in Text, NEW u \in Text, Len(t) = Len(u), NEW n \in 1..Len(t), t[n] # u[n],
           \A k \in 1..Len(t) : k # n => t[k] = u[k]
    PROVE  SumOf(t) # SumOf(u)
  <1>1. t \in Seq(Octet) /\ u \in Seq(Octet) /\ Len(t) \in Nat
    BY DEF Text
  <1>2. \A k \in 1..Len(t) : t[k] \in Octet /\ u[k] \in Octet
    BY <1>1
  <1> DEFINE A(k) == SumOf(Upto(t, k))
  <1> DEFINE B(k) == SumOf(Upto(u, k))
  <1>3. /\ Upto(t, 0) = <<>> /\ Upto(u, 0) = <<>>
        /\ Upto(t, Len(t)) = t /\ Upto(u, Len(t)) = u
        /\ \A k \in 0..Len(t) : Upto(t, k) \in Seq(Octet) /\ Upto(u, k) \in Seq(Octet)
    BY <1>1, UptoAll
  <1>4. ASSUME NEW k \in 1..Len(t)
        PROVE  /\ A(k) = SumStep(A(k - 1), t[k]) /\ B(k) = SumStep(B(k - 1), u[k])
               /\ A(k - 1) \in Word /\ B(k - 1) \in Word
    <2>1. Upto(t, k) = Append(Upto(t, k - 1), t[k]) /\ Upto(u, k) = Append(Upto(u, k - 1), u[k])
      BY <1>1, UptoNext
    <2>2. k - 1 \in 0..Len(t)
      BY <1>1
    <2> QED BY <1>2, <1>3, <2>1, <2>2, SumLaws
  <1> DEFINE M == {k \in Nat : (k < n => A(k) = B(k)) /\ (k >= n => A(k) # B(k))}
  <1>5. 0 \in M
    BY <1>3
  <1>6. ASSUME NEW k \in 0..(Len(t) - 1), k \in M PROVE k + 1 \in M
    <2> HIDE DEF A, B
    <2>1. k + 1 \in 1..Len(t) /\ (k + 1) - 1 = k /\ k \in Nat /\ n \in Nat
      BY <1>1
    <2>2. /\ A(k + 1) = SumStep(A(k), t[k + 1]) /\ B(k + 1) = SumStep(B(k), u[k + 1])
          /\ A(k) \in Word /\ B(k) \in Word /\ t[k + 1] \in Octet /\ u[k + 1] \in Octet
      BY <1>2, <1>4, <2>1
    <2>3. CASE k + 1 < n
      <3>1. A(k) = B(k) /\ t[k + 1] = u[k + 1]
        BY <1>6, <2>1, <2>3
      <3> QED BY <2>1, <2>2, <2>3, <3>1
    <2>4. CASE k + 1 = n
      <3>1. A(k) = B(k) /\ t[k + 1] # u[k + 1]
        BY <1>6, <2>1, <2>4
      <3>2. A(k + 1) # B(k + 1)
        BY <2>2, <3>1, SumStepTells
      <3> QED BY <2>1, <2>4, <3>2
    <2>5. CASE k + 1 > n
      <3>1. A(k) # B(k) /\ t[k + 1] = u[k + 1]
        BY <1>6, <2>1, <2>5
      <3>2. A(k + 1) # B(k + 1)
        BY <2>2, <3>1, SumStepTells
      <3> QED BY <2>1, <2>5, <3>2
    <2> QED BY <2>1, <2>3, <2>4, <2>5
  <1>7. 0..Len(t) \subseteq M
    <2>1. M \in SUBSET Nat
      OBVIOUS
    <2> HIDE DEF M
    <2> QED BY <1>1, <1>5, <1>6, <2>1, InductionTo
  <1>8. A(Len(t)) # B(Len(t))
    <2> HIDE DEF A, B
    <2>1. Len(t) \in M
      BY <1>1, <1>7
    <2> QED BY <1>1, <2>1
  <1> QED BY <1>3, <1>8

\* Two files that differ in one byte have different sums (sum.c:46-48).
THEOREM SumTells == Spec => []SumTellsApart
  <1>1. Base /\ SumsSeen => SumTellsApart
    <2> SUFFICES ASSUME Base, SumsSeen, Done("sum"), Len(ops) = 2
                 PROVE  LET t == job.text[ops[1]]  u == job.text[ops[2]] IN
                        Len(t) = Len(u) /\ Cardinality({n \in DOMAIN t : t[n] # u[n]}) = 1
                           => out[1] # out[2]
      BY DEF SumTellsApart
    <2> DEFINE t == job.text[ops[1]]
    <2> DEFINE u == job.text[ops[2]]
    <2>1. tool = "sum" /\ ~Helped /\ pc = "ok" /\ arg = 3
      BY DEF Done, Base
    <2>2. /\ 1 \in 1..(arg - 1) /\ 2 \in 1..(arg - 1) /\ 1 \in 1..Len(ops) /\ 2 \in 1..Len(ops)
      BY <2>1
    <2>3. Opens(ops[1]) /\ Opens(ops[2])
      BY <2>2 DEF Base
    <2>4. t \in Text /\ u \in Text
      BY <2>2, <2>3, InHandTyped
    <2>5. out[1] = SumOf(t) /\ out[2] = SumOf(u)
      BY <2>1, <2>2 DEF SumsSeen
    <2> HIDE DEF t, u
    <2>6. ASSUME Len(t) = Len(u), Cardinality({n \in DOMAIN t : t[n] # u[n]}) = 1
          PROVE  SumOf(t) # SumOf(u)
      <3> DEFINE D == {n \in DOMAIN t : t[n] # u[n]}
      <3>1. Len(t) \in Nat /\ DOMAIN t = 1..Len(t)
        BY <2>4 DEF Text
      <3>2. IsFiniteSet(D)
        <4>1. IsFiniteSet(1..Len(t)) /\ D \subseteq 1..Len(t)
          BY <3>1, FS_Interval
        <4> HIDE DEF D
        <4> QED BY <4>1, FS_Subset
      <3>3. \E n : D = {n}
        <4> HIDE DEF D
        <4>1. Cardinality(D) = 1
          BY <2>6 DEF D
        <4> QED BY <3>2, <4>1, FS_Singleton
      <3>4. PICK n : D = {n}
        BY <3>3
      <3>5. n \in 1..Len(t) /\ t[n] # u[n] /\ \A k \in 1..Len(t) : k # n => t[k] = u[k]
        BY <3>1, <3>4
      <3> QED BY <2>4, <2>6, <3>5, SumDiffers
    <2> QED BY <2>5, <2>6 DEF t, u
  <1> QED BY <1>1, AllBase, PTL

-----------------------------------------------------------------------------
(* cmp *)

\* How far cmp is after n bytes.
Compared(t, u, n, r) ==
    /\ r \in Place /\ r.byte \in 1..(n + 1)
    /\ \A m \in 1..(r.byte - 1) : Byte(t, m) = Byte(u, m)
    /\ r.byte <= n => Byte(t, r.byte) # Byte(u, r.byte)
    /\ r.line = Count(Upto(t, r.byte - 1), {Newline})

\* One pair of bytes more is compared.
LEMMA OnePairMore ==
    ASSUME NEW t \in Text, NEW u, NEW n \in Nat, n + 1 <= Len(t), NEW c \in Octet,
           NEW r, Compared(t, u, n, r)
    PROVE  Compared(t, u, n + 1, CmpStep(t, u, r, c))
  <1>1. /\ r \in Place /\ r.byte \in 1..(n + 1) /\ r.byte \in Nat /\ r.line \in Nat
        /\ t \in Seq(Octet) /\ Len(t) \in Nat
    BY DEF Compared, Place, Text
  <1>2. CASE Byte(t, r.byte) # Byte(u, r.byte)
    <2>1. CmpStep(t, u, r, c) = r
      BY <1>2 DEF CmpStep
    <2>2. r.byte \in 1..(n + 1 + 1)
      BY <1>1
    <2> QED BY <1>2, <2>1, <2>2 DEF Compared
  <1>3. CASE Byte(t, r.byte) = Byte(u, r.byte)
    <2>1. r.byte = n + 1
      BY <1>1, <1>3 DEF Compared
    <2> DEFINE k == n + 1
    <2>2. k \in 1..Len(t) /\ Byte(t, k) = t[k] /\ t[k] \in Octet /\ k - 1 = n /\ n \in 0..Len(t)
      BY <1>1 DEF Byte
    <2> DEFINE l == r.line + (IF Byte(t, k) = Newline THEN 1 ELSE 0)
    <2>3. CmpStep(t, u, r, c) = [byte |-> k + 1, line |-> l]
      BY <1>3, <2>1 DEF CmpStep
    <2>4. l \in Nat
      BY <1>1
    <2>5. \A m \in 1..k : Byte(t, m) = Byte(u, m)
      <3>1. \A m \in 1..k : m = k \/ m \in 1..(r.byte - 1)
        BY <2>1
      <3> QED BY <1>3, <2>1, <3>1 DEF Compared
    <2>6. l = Count(Upto(t, k), {Newline})
      <3>1. Upto(t, k) = Append(Upto(t, n), t[k])
        BY <1>1, <2>2, UptoNext
      <3>2. Upto(t, n) \in Seq(Octet)
        BY <1>1, <2>2, UptoAll
      <3>3. Count(Append(Upto(t, n), t[k]), {Newline}) =
               Count(Upto(t, n), {Newline}) + (IF t[k] \in {Newline} THEN 1 ELSE 0)
        BY <2>2, <3>2, CountNext
      <3>4. r.line = Count(Upto(t, n), {Newline})
        BY <2>1, <2>2 DEF Compared
      <3> QED BY <2>2, <3>1, <3>3, <3>4
    <2>7. k \in Nat /\ k + 1 - 1 = k /\ k + 1 \in 1..(k + 1) /\ ~(k + 1 <= k)
      BY <2>2
    <2> HIDE DEF k, l
    <2> DEFINE q == [byte |-> k + 1, line |-> l]
    <2>8. q \in Place /\ q.byte = k + 1 /\ q.line = l
      BY <2>4, <2>7 DEF Place
    <2> HIDE DEF q
    <2>9. Compared(t, u, k, q)
      BY <2>5, <2>6, <2>7, <2>8 DEF Compared
    <2> QED BY <2>3, <2>9 DEF k, q
  <1> QED BY <1>2, <1>3

\* cmp's loop has compared the first n bytes.
LEMMA ComparedTo ==
    ASSUME NEW t \in Text, NEW u
    PROVE  Compared(t, u, Len(t), CmpOf(t, u, t))
  <1> DEFINE P == {s \in Seq(Octet) : Len(s) <= Len(t) => Compared(t, u, Len(s), CmpOf(t, u, s))}
  <1>1. <<>> \in P
    <2> DEFINE q == [byte |-> 1, line |-> 0]
    <2>1. CmpOf(t, u, <<>>) = q
      BY CmpLaws
    <2>2. q \in Place /\ q.byte = 1 /\ q.line = 0
      BY DEF Place
    <2>3. Upto(t, 0) = <<>> /\ Count(<<>>, {Newline}) = 0
      BY UptoAll, CountEmpty DEF Text
    <2> HIDE DEF q
    <2>4. q.byte - 1 = 0
      BY <2>2
    <2>5. q.line = Count(Upto(t, q.byte - 1), {Newline})
      BY <2>2, <2>3, <2>4, Zenon
    <2>6. Compared(t, u, 0, q)
      BY <2>2, <2>5 DEF Compared
    <2> QED BY <2>1, <2>6
  <1>2. ASSUME NEW s \in Seq(Octet), NEW c \in Octet, s \in P PROVE Append(s, c) \in P
    <2>1. Len(Append(s, c)) = Len(s) + 1 /\ Append(s, c) \in Seq(Octet) /\ Len(s) \in Nat
      OBVIOUS
    <2> SUFFICES ASSUME Len(s) + 1 <= Len(t)
                 PROVE  Compared(t, u, Len(s) + 1, CmpOf(t, u, Append(s, c)))
      BY <2>1
    <2>2. Compared(t, u, Len(s), CmpOf(t, u, s))
      BY <1>2, <2>1 DEF Text
    <2>3. CmpOf(t, u, Append(s, c)) = CmpStep(t, u, CmpOf(t, u, s), c)
      BY CmpLaws
    <2> QED BY <2>1, <2>2, <2>3, OnePairMore
  <1> HIDE DEF P
  <1>3. Seq(Octet) \subseteq P
    BY <1>1, <1>2, OneMore
  <1>4. t \in P
    BY <1>3 DEF Text
  <1> QED BY <1>4 DEF P, Text

\* What cmp prints of two files.
Tells(t, u, printed) ==
    IF t = u THEN printed = <<>>
    ELSE printed # <<>> /\ LET n == printed[1].byte IN
         /\ Byte(t, n) # Byte(u, n) /\ Upto(t, n - 1) = Upto(u, n - 1)
         /\ printed[1].line = Count(Upto(t, n - 1), {Newline})

\* What cmp reports of two texts is true.
LEMMA CmpTells ==
    ASSUME NEW t \in Text, NEW u \in Text
    PROVE  Tells(t, u, Cmp(t, u))
  <1> DEFINE r == CmpOf(t, u, t)
  <1>1. Cmp(t, u) = IF Byte(t, r.byte) = Byte(u, r.byte) THEN <<>> ELSE <<r>>
    BY CmpIsFold DEF Text
  <1>2. Compared(t, u, Len(t), r)
    BY ComparedTo
  <1> HIDE DEF r
  <1>3. /\ r \in Place /\ r.byte \in 1..(Len(t) + 1) /\ Len(t) \in Nat /\ Len(u) \in Nat
        /\ t \in Seq(Octet) /\ u \in Seq(Octet)
        /\ DOMAIN t = 1..Len(t) /\ DOMAIN u = 1..Len(u)
    BY <1>2 DEF Compared, Text
  <1>4. /\ \A m \in 1..Len(t) : t[m] \in Octet /\ t[m] # EOF
        /\ \A m \in 1..Len(u) : u[m] \in Octet /\ u[m] # EOF
    BY <1>3, Octets DEF EOF
  <1>5. \A m \in 1..(r.byte - 1) : m \in 1..Len(t) /\ m \in 1..Len(u) /\ t[m] = u[m]
    <2> SUFFICES ASSUME NEW m \in 1..(r.byte - 1)
                 PROVE  m \in 1..Len(t) /\ m \in 1..Len(u) /\ t[m] = u[m]
      OBVIOUS
    <2>1. Byte(t, m) = Byte(u, m) /\ m \in 1..Len(t)
      BY <1>2, <1>3 DEF Compared
    <2> QED BY <1>3, <1>4, <2>1 DEF Byte
  <1>6. CASE Byte(t, r.byte) = Byte(u, r.byte)
    <2>1. r.byte = Len(t) + 1
      BY <1>2, <1>3, <1>6 DEF Compared
    <2>2. Byte(t, Len(t) + 1) = EOF
      BY <1>3 DEF Byte
    <2>3. ~(Len(t) + 1 <= Len(u))
      <3> SUFFICES ASSUME Len(t) + 1 <= Len(u) PROVE FALSE
        OBVIOUS
      <3>1. Len(t) + 1 \in 1..Len(u)
        BY <1>3
      <3>2. u[Len(t) + 1] = EOF
        BY <1>6, <2>1, <2>2 DEF Byte
      <3> QED BY <1>4, <3>1, <3>2
    <2>4. ~(Len(u) < Len(t))
      <3> SUFFICES ASSUME Len(u) < Len(t) PROVE FALSE
        OBVIOUS
      <3>1. Len(t) \in 1..(r.byte - 1)
        BY <1>3, <2>1
      <3> QED BY <1>3, <1>5, <3>1
    <2>5. Len(t) = Len(u)
      <3>1. Len(t) \in Nat /\ Len(u) \in Nat
        BY <1>3
      <3> QED BY <2>3, <2>4, <3>1
    <2>6. \A m \in 1..Len(t) : t[m] = u[m]
      BY <1>3, <1>5, <2>1
    <2>7. t = u
      BY <1>3, <2>5, <2>6
    <2> QED BY <1>1, <1>6, <2>7 DEF Tells
  <1>7. CASE Byte(t, r.byte) # Byte(u, r.byte)
    <2>1. t # u
      BY <1>7
    <2> DEFINE k == r.byte - 1
    <2>2. k \in 0..Len(t) /\ k \in 0..Len(u)
      <3>1. k \in 0..Len(t)
        BY <1>3
      <3>2. k # 0 => k \in 1..Len(u)
        BY <1>3, <1>5
      <3> QED BY <1>3, <3>1, <3>2
    <2>3. \A m \in 1..k : t[m] = u[m]
      BY <1>5
    <2> HIDE DEF k
    <2>4. Upto(t, k) = Upto(u, k)
      <3>1. /\ Upto(t, k) \in Seq(Octet) /\ Len(Upto(t, k)) = k
            /\ \A m \in 1..k : Upto(t, k)[m] = t[m]
        BY <1>3, <2>2, UptoAll
      <3>2. /\ Upto(u, k) \in Seq(Octet) /\ Len(Upto(u, k)) = k
            /\ \A m \in 1..k : Upto(u, k)[m] = u[m]
        BY <1>3, <2>2, UptoAll
      <3> DEFINE v == Upto(t, k)
      <3> DEFINE w == Upto(u, k)
      <3> HIDE DEF v, w
      <3>3. v \in Seq(Octet) /\ w \in Seq(Octet) /\ Len(v) = Len(w) /\ \A m \in 1..Len(v) : v[m] = w[m]
        BY <2>3, <3>1, <3>2 DEF v, w
      <3>4. v = w
        BY <3>3
      <3> QED BY <3>4 DEF v, w
    <2>5. r.line = Count(Upto(t, k), {Newline})
      BY <1>2 DEF Compared, k
    <2>6. Cmp(t, u) = <<r>> /\ <<r>> # <<>> /\ <<r>>[1] = r
      BY <1>1, <1>7
    <2> QED BY <1>7, <2>1, <2>4, <2>5, <2>6 DEF Tells, k
  <1> QED BY <1>6, <1>7

\* cmp compares when both files are open, and only once.
CmpSeen ==
    tool = "cmp" /\ ~Helped =>
        /\ Len(ops) = 2
        /\ pc \in {"main", "ok"} => arg = 1
        /\ pc = "main" => out = <<>>
        /\ pc = "ok" => /\ Opens(ops[1]) /\ Opens(ops[2])
                        /\ out = Cmp(job.text[ops[1]], job.text[ops[2]])

\* And it is one place at most.
LEMMA CmpIsSeq ==
    ASSUME NEW t \in Text, NEW u
    PROVE  <<>> \o Cmp(t, u) = Cmp(t, u)
  <1>1. t \in Seq(Octet)
    BY DEF Text
  <1> DEFINE r == CmpOf(t, u, t)
  <1>2. Cmp(t, u) = <<>> \/ Cmp(t, u) = <<r>>
    BY <1>1, CmpIsFold
  <1> HIDE DEF r
  <1>3. r \in {r} /\ <<r>> \in Seq({r}) /\ <<>> \in Seq({r})
    OBVIOUS
  <1>4. <<>> \o <<r>> = <<r>> /\ <<>> \o <<>> = <<>>
    OBVIOUS
  <1> QED BY <1>2, <1>4

\* The output of cmp is what it reports of its two operands.
LEMMA StepsCmp ==
    ASSUME Base, Steps, CmpSeen
    PROVE  CmpSeen'
  <1>1. job' = job
    BY StepsBase
  <1>2. /\ tool' = tool /\ ops' = ops /\ (Helped' <=> Helped)
    BY <1>1, SameJob
  <1> SUFFICES ASSUME tool = "cmp", ~Helped PROVE CmpSeen'
    BY <1>2 DEF CmpSeen
  <1>3. Len(ops) = 2
    BY DEF CmpSeen
  <1>4. CASE UNCHANGED vars
    BY <1>1, <1>2, <1>4 DEF CmpSeen, vars, Opens
  <1>5. CASE Breaks
    BY <1>1, <1>2, <1>3, <1>5 DEF Breaks, CmpSeen, Bad
  <1>6. CASE Helps
    BY <1>6 DEF Helps
  <1>7. CASE Compares
    <2>1. out = <<>> /\ pc' = "ok" /\ arg = 1 /\ arg' = arg /\ Opens(ops[1]) /\ Opens(ops[2])
      BY <1>7 DEF Compares, CmpSeen
    <2>2. job.text[ops[1]] \in Text
      BY <1>3, <2>1, InHandTyped
    <2>3. out' = Cmp(job.text[ops[1]], job.text[ops[2]])
      BY <1>7, <2>1, <2>2, CmpIsSeq DEF Compares
    <2> QED BY <1>1, <1>2, <1>3, <2>1, <2>3 DEF CmpSeen, Opens
  <1>8. CASE TakesInput
    BY <1>8 DEF TakesInput
  <1>9. CASE Ends
    BY <1>3, <1>9 DEF Ends, CmpSeen
  <1>10. CASE \E items : Handles(items)
    BY <1>10 DEF Handles, Made
  <1> QED BY <1>4, <1>5, <1>6, <1>7, <1>8, <1>9, <1>10 DEF Steps

\* cmp prints nothing of equal files, and otherwise the place of the first
\* difference and the ends of lines before it (cmp.c:51-66).
THEOREM CmpFinds == Spec => []CmpFindsDifference
  <1>1. Init => CmpSeen
    <2> SUFFICES ASSUME Init, tool = "cmp", ~Helped PROVE CmpSeen
      BY DEF CmpSeen
    <2> QED BY DEF Init, CmpSeen, Helped
  <1>2. Base /\ CmpSeen /\ [Next]_vars => CmpSeen'
    BY NextSteps, StepsCmp
  <1>3. Base /\ CmpSeen => CmpFindsDifference
    <2> SUFFICES ASSUME Base, CmpSeen, Done("cmp") PROVE CmpFindsDifference
      BY DEF CmpFindsDifference
    <2>1. /\ Len(ops) = 2 /\ Opens(ops[1]) /\ Opens(ops[2])
          /\ out = Cmp(job.text[ops[1]], job.text[ops[2]])
      BY DEF Done, CmpSeen
    <2>2. job.text[ops[1]] \in Text /\ job.text[ops[2]] \in Text
      BY <2>1, InHandTyped
    <2> QED BY <2>1, <2>2, CmpTells DEF Tells, CmpFindsDifference
  <1> QED BY <1>1, <1>2, <1>3, AllBase, PTL DEF Spec

-----------------------------------------------------------------------------
(* head *)

\* The input of a tool with one operand is that file.
LEMMA InputOfOne ==
    ASSUME Base, Len(ops) = 1, Opens(ops[1])
    PROVE  Input = job.text[ops[1]] /\ Input \in Text
  <1> DEFINE x == job.text[ops[1]]
  <1>1. x \in Text /\ ops \in Seq(STRING)
    <2>1. 1 \in 1..Len(ops)
      OBVIOUS
    <2> QED BY <2>1, InHandTyped, JobTypes DEF Base, JobTyped
  <1>2. DOMAIN ops = {1} /\ ops # <<>>
    <2>1. DOMAIN ops = 1..Len(ops) /\ Len(<<>>) = 0
      BY <1>1
    <2>2. 1..1 = {1}
      OBVIOUS
    <2>3. Len(ops) = 1
      OBVIOUS
    <2>4. ops # <<>>
      BY <2>1, <2>3
    <2> QED BY <2>1, <2>2, <2>3, <2>4, Zenon
  <1>3. Input = FlattenSeq([n \in DOMAIN ops |-> job.text[ops[n]]])
    BY <1>2 DEF Input
  <1>4. [n \in DOMAIN ops |-> job.text[ops[n]]] = [n \in {1} |-> x]
    BY <1>2
  <1> HIDE DEF x
  <1>5. [n \in {1} |-> x] = Append(<<>>, x)
    OBVIOUS
  <1>6. Flat(Octet)
    BY FlatLaws
  <1>7. FlattenSeq(Append(<<>>, x)) = <<>> \o x
    <2>1. <<>> \in Seq(Seq(Octet)) /\ x \in Seq(Octet)
      BY <1>1 DEF Text
    <2> QED BY <1>6, <2>1 DEF Flat
  <1>8. <<>> \o x = x
    BY <1>1 DEF Text
  <1> QED BY <1>1, <1>3, <1>4, <1>5, <1>7, <1>8 DEF x

\* The text without its first byte goes on with the text.
LEMMA TailNext ==
    ASSUME NEW B, NEW s \in Seq(B), NEW c \in B
    PROVE  /\ s = <<>> => Tail(Append(s, c)) = <<>>
           /\ s # <<>> => Tail(s) \in Seq(B) /\ Tail(Append(s, c)) = Append(Tail(s), c)
  <1>1. s # <<>> => Tail(s) \in Seq(B)
    OBVIOUS
  <1>2. s = <<>> => Tail(Append(s, c)) = <<>>
    OBVIOUS
  <1>3. ASSUME s # <<>> PROVE Tail(Append(s, c)) = Append(Tail(s), c)
    <2> DEFINE v == Tail(Append(s, c))
    <2> DEFINE w == Append(Tail(s), c)
    <2>1. /\ v \in Seq(B) /\ w \in Seq(B) /\ Len(v) = Len(s) /\ Len(w) = Len(s) /\ Len(s) \in Nat
          /\ Len(Tail(s)) = Len(s) - 1 /\ Len(s) > 0
      BY <1>1, <1>3
    <2>2. \A m \in 1..Len(s) : v[m] = Append(s, c)[m + 1]
      BY <2>1
    <2>3. \A m \in 1..(Len(s) - 1) : w[m] = s[m + 1]
      BY <1>1, <1>3, <2>1
    <2>4. w[Len(s)] = c
      BY <1>1, <1>3, <2>1
    <2>5. Append(s, c)[Len(s) + 1] = c /\ \A m \in 1..Len(s) : Append(s, c)[m] = s[m]
      OBVIOUS
    <2> HIDE DEF v, w
    <2>6. \A m \in 1..Len(s) : v[m] = w[m]
      <3> SUFFICES ASSUME NEW m \in 1..Len(s) PROVE v[m] = w[m]
        OBVIOUS
      <3>1. CASE m = Len(s)
        BY <2>1, <2>2, <2>4, <2>5, <3>1
      <3>2. CASE m # Len(s)
        <4>1. m \in 1..(Len(s) - 1) /\ m + 1 \in 1..Len(s)
          BY <2>1, <3>2
        <4> QED BY <2>2, <2>3, <2>5, <4>1
      <3> QED BY <3>1, <3>2
    <2>7. v = w
      BY <2>1, <2>6
    <2> QED BY <2>7 DEF v, w
  <1> QED BY <1>1, <1>2, <1>3

\* The ends of lines in the first k bytes, that at the beginning left out.
Ended(t, k) == Count(Tail(Upto(t, k)), {Newline})

\* The ends of lines in it are one more after one.
LEMMA EndedNext ==
    ASSUME NEW t \in Text, NEW k \in 1..Len(t)
    PROVE  /\ Ended(t, k) \in Nat
           /\ k = 1 => Ended(t, k) = 0
           /\ k > 1 => Ended(t, k) = Ended(t, k - 1) + (IF Byte(t, k) = Newline THEN 1 ELSE 0)
  <1>1. t \in Seq(Octet) /\ Len(t) \in Nat /\ t[k] \in Octet /\ Byte(t, k) = t[k] /\ k - 1 \in 0..Len(t)
    BY DEF Text, Byte
  <1> DEFINE s == Upto(t, k - 1)
  <1>2. s \in Seq(Octet) /\ Len(s) = k - 1 /\ Upto(t, k) = Append(s, t[k])
    BY <1>1, UptoAll, UptoNext
  <1>3. Ended(t, k) = Count(Tail(Append(s, t[k])), {Newline}) /\ Ended(t, k - 1) = Count(Tail(s), {Newline})
    BY <1>2 DEF Ended
  <1> HIDE DEF s
  <1>4. CASE k = 1
    <2>1. s = <<>>
      BY <1>2, <1>4
    <2>2. Tail(Append(s, t[k])) = <<>>
      BY <1>1, <1>2, <2>1, TailNext
    <2>3. Ended(t, k) = 0
      BY <1>3, <2>2, CountEmpty
    <2> QED BY <1>4, <2>3
  <1>5. CASE k # 1
    <2>1. s # <<>>
      BY <1>2, <1>5
    <2>2. Tail(s) \in Seq(Octet) /\ Tail(Append(s, t[k])) = Append(Tail(s), t[k])
      BY <1>1, <1>2, <2>1, TailNext
    <2> DEFINE v == Tail(s)
    <2> HIDE DEF v
    <2>3. /\ v \in Seq(Octet) /\ Ended(t, k - 1) = Count(v, {Newline})
          /\ Ended(t, k) = Count(Append(v, t[k]), {Newline})
      BY <1>3, <2>2 DEF v
    <2> DEFINE c == t[k]
    <2> HIDE DEF c
    <2>4. c \in Octet /\ Byte(t, k) = c /\ Ended(t, k) = Count(Append(v, c), {Newline})
      BY <1>1, <2>3 DEF c
    <2>5. /\ Count(v, {Newline}) \in Nat
          /\ Count(Append(v, c), {Newline}) =
                Count(v, {Newline}) + (IF c \in {Newline} THEN 1 ELSE 0)
      BY <2>3, <2>4, CountNext
    <2>6. Ended(t, k) = Ended(t, k - 1) + (IF Byte(t, k) = Newline THEN 1 ELSE 0)
      BY <2>3, <2>4, <2>5
    <2>7. Ended(t, k) \in Nat
      BY <2>3, <2>5, <2>6
    <2> QED BY <1>5, <2>6, <2>7
  <1> QED BY <1>4, <1>5

\* A first byte that ends no line is not counted.
LEMMA RestCount ==
    ASSUME NEW t \in Text, t # <<>>, t[1] # Newline
    PROVE  Count(t, {Newline}) = Count(Tail(t), {Newline})
  <1> DEFINE P == {s \in Seq(Octet) :
                     s # <<>> /\ s[1] # Newline => Count(s, {Newline}) = Count(Tail(s), {Newline})}
  <1>1. <<>> \in P
    OBVIOUS
  <1>2. ASSUME NEW s \in Seq(Octet), NEW c \in Octet, s \in P PROVE Append(s, c) \in P
    <2> DEFINE w == Append(s, c)
    <2>1. w \in Seq(Octet)
      OBVIOUS
    <2>2. ASSUME w[1] # Newline PROVE Count(w, {Newline}) = Count(Tail(w), {Newline})
      <3>1. Count(w, {Newline}) = Count(s, {Newline}) + (IF c \in {Newline} THEN 1 ELSE 0)
        BY CountNext
      <3>2. CASE s = <<>>
        <4>1. Tail(w) = <<>> /\ c = w[1]
          BY <3>2, TailNext
        <4>2. Count(s, {Newline}) = 0 /\ Count(Tail(w), {Newline}) = 0
          BY <3>2, <4>1, CountEmpty
        <4>3. (IF c \in {Newline} THEN 1 ELSE 0) = 0
          BY <2>2, <4>1
        <4> HIDE DEF w
        <4> QED BY <3>1, <4>2, <4>3
      <3>3. CASE s # <<>>
        <4>1. s[1] = w[1]
          BY <3>3
        <4>2. Count(s, {Newline}) = Count(Tail(s), {Newline})
          BY <1>2, <2>2, <3>3, <4>1
        <4>3. Tail(s) \in Seq(Octet) /\ Tail(w) = Append(Tail(s), c)
          BY <3>3, TailNext
        <4> DEFINE v == Tail(s)
        <4> HIDE DEF v, w
        <4>4. v \in Seq(Octet) /\ Tail(w) = Append(v, c) /\ Count(s, {Newline}) = Count(v, {Newline})
          BY <4>2, <4>3 DEF v
        <4>5. Count(Append(v, c), {Newline}) =
                 Count(v, {Newline}) + (IF c \in {Newline} THEN 1 ELSE 0)
          BY <4>4, CountNext
        <4> QED BY <3>1, <4>4, <4>5
      <3> QED BY <3>2, <3>3
    <2> HIDE DEF w
    <2> QED BY <2>1, <2>2 DEF w
  <1> HIDE DEF P
  <1>3. Seq(Octet) \subseteq P
    BY <1>1, <1>2, OneMore
  <1>4. t \in P
    BY <1>3 DEF Text
  <1> QED BY <1>4 DEF P

\* How far head is when it has looked n times.
Headed(t, lines, n, r) ==
    /\ r \in Printed /\ r.bytes <= n
    /\ r.newlines < lines => r.bytes = n
    /\ r.bytes = 0 => r.newlines = 0
    /\ r.bytes > 0 =>
        /\ Ended(t, r.bytes) < lines
        /\ r.newlines = Ended(t, r.bytes) + (IF Byte(t, r.bytes + 1) = Newline THEN 1 ELSE 0)

\* head prints one byte and looks at the next.
LEMMA OneLookMore ==
    ASSUME NEW t \in Text, NEW lines \in Int, NEW n \in Nat, n + 1 <= Len(t), NEW c \in Octet,
           NEW r, Headed(t, lines, n, r)
    PROVE  Headed(t, lines, n + 1, HeadStep(t, lines, r, c))
  <1>1. r \in Printed /\ r.bytes \in Nat /\ r.newlines \in Nat /\ Len(t) \in Nat
    BY DEF Headed, Printed, Text
  <1>2. CASE r.newlines >= lines
    <2>1. HeadStep(t, lines, r, c) = r /\ ~(r.newlines < lines)
      BY <1>1, <1>2 DEF HeadStep
    <2> QED BY <1>1, <2>1 DEF Headed
  <1>3. CASE ~(r.newlines >= lines)
    <2>1. r.bytes = n /\ r.newlines < lines
      BY <1>1, <1>3 DEF Headed
    <2> DEFINE k == n + 1
    <2> DEFINE l == r.newlines + (IF Byte(t, k + 1) = Newline THEN 1 ELSE 0)
    <2>2. k \in 1..Len(t) /\ k - 1 = n /\ k \in Nat /\ k > 0 /\ k # 0
      BY <1>1
    <2>3. n + 2 = k + 1
      OBVIOUS
    <2>4. HeadStep(t, lines, r, c) = [bytes |-> k, newlines |-> l]
      BY <1>3, <2>1, <2>3 DEF HeadStep
    <2>5. l \in Nat
      BY <1>1
    <2>6. Ended(t, k) = r.newlines
      <3>1. CASE n = 0
        <4>1. k = 1 /\ r.newlines = 0
          BY <2>1, <3>1 DEF Headed
        <4> QED BY <2>2, <4>1, EndedNext
      <3>2. CASE n # 0
        <4>1. r.newlines = Ended(t, n) + (IF Byte(t, n + 1) = Newline THEN 1 ELSE 0)
          BY <1>1, <2>1, <3>2 DEF Headed
        <4>2. k > 1
          BY <3>2
        <4>3. Ended(t, k) = Ended(t, k - 1) + (IF Byte(t, k) = Newline THEN 1 ELSE 0)
          BY <2>2, <4>2, EndedNext
        <4> QED BY <2>2, <4>1, <4>3
      <3> QED BY <3>1, <3>2
    <2> HIDE DEF k
    <2>7. l = Ended(t, k) + (IF Byte(t, k + 1) = Newline THEN 1 ELSE 0) /\ Ended(t, k) < lines
      BY <2>1, <2>6
    <2> HIDE DEF l
    <2> DEFINE q == [bytes |-> k, newlines |-> l]
    <2>8. q \in Printed /\ q.bytes = k /\ q.newlines = l
      BY <2>2, <2>5 DEF Printed
    <2> HIDE DEF q
    <2>9. Headed(t, lines, k, q)
      BY <2>2, <2>7, <2>8 DEF Headed
    <2> QED BY <2>4, <2>9 DEF k, q
  <1> QED BY <1>2, <1>3

\* head's loop has seen n bytes.
LEMMA HeadedTo ==
    ASSUME NEW t \in Text, NEW lines \in Int
    PROVE  Headed(t, lines, Len(t), HeadEnd(t, lines))
  <1> DEFINE P == {s \in Seq(Octet) : Len(s) <= Len(t) => Headed(t, lines, Len(s), HeadOf(t, lines, s))}
  <1>1. <<>> \in P
    <2> DEFINE q == [bytes |-> 0, newlines |-> 0]
    <2>1. HeadOf(t, lines, <<>>) = q
      BY HeadLaws
    <2>2. q \in Printed /\ q.bytes = 0 /\ q.newlines = 0
      BY DEF Printed
    <2> HIDE DEF q
    <2>3. Headed(t, lines, 0, q)
      BY <2>2 DEF Headed
    <2> QED BY <2>1, <2>3
  <1>2. ASSUME NEW s \in Seq(Octet), NEW c \in Octet, s \in P PROVE Append(s, c) \in P
    <2>1. Len(Append(s, c)) = Len(s) + 1 /\ Append(s, c) \in Seq(Octet) /\ Len(s) \in Nat
      OBVIOUS
    <2> SUFFICES ASSUME Len(s) + 1 <= Len(t)
                 PROVE  Headed(t, lines, Len(s) + 1, HeadOf(t, lines, Append(s, c)))
      BY <2>1
    <2>2. Headed(t, lines, Len(s), HeadOf(t, lines, s))
      BY <1>2, <2>1 DEF Text
    <2>3. HeadOf(t, lines, Append(s, c)) = HeadStep(t, lines, HeadOf(t, lines, s), c)
      BY HeadLaws
    <2> QED BY <2>1, <2>2, <2>3, OneLookMore
  <1> HIDE DEF P
  <1>3. Seq(Octet) \subseteq P
    BY <1>1, <1>2, OneMore
  <1>4. t \in P
    BY <1>3 DEF Text
  <1> QED BY <1>4, HeadIsFold DEF P, Text

\* What head prints of one file.
Heads(t, lines, printed) ==
    LET n == Len(printed) IN
    IF lines <= 0 THEN printed = <<>>
    ELSE Byte(t, 1) # Newline =>
         /\ printed = Upto(t, n)
         /\ Byte(t, n + 1) \in {Newline, EOF}
         /\ Count(printed, {Newline}) < lines
         /\ n < Len(t) => Count(printed, {Newline}) = lines - 1

\* What head prints of a text that does not begin with an empty line stops at
\* the end of a line, the last of those it is told to print.
LEMMA HeadHeads ==
    ASSUME NEW t \in Text, NEW lines \in Int
    PROVE  /\ Heads(t, lines, Upto(t, HeadEnd(t, lines).bytes))
           /\ Upto(t, HeadEnd(t, lines).bytes) \in Text
  <1> DEFINE r == HeadEnd(t, lines)
  <1>1. Headed(t, lines, Len(t), r)
    BY HeadedTo
  <1> HIDE DEF r
  <1> DEFINE n == r.bytes
  <1> DEFINE printed == Upto(t, n)
  <1>2. n \in Nat /\ r.newlines \in Nat /\ Len(t) \in Nat /\ n <= Len(t) /\ n \in 0..Len(t)
    BY <1>1 DEF Headed, Printed, Text
  <1>3. /\ r.newlines < lines => n = Len(t)
        /\ n = 0 => r.newlines = 0
        /\ n > 0 => /\ Ended(t, n) < lines
                    /\ r.newlines = Ended(t, n) + (IF Byte(t, n + 1) = Newline THEN 1 ELSE 0)
    BY <1>1 DEF Headed
  <1>4. n > 0 => Ended(t, n) \in Nat
    <2>1. n > 0 => n \in 1..Len(t)
      BY <1>2
    <2> HIDE DEF n
    <2> QED BY <2>1, EndedNext
  <1> HIDE DEF n
  <1>5. printed \in Seq(Octet) /\ Len(printed) = n /\ Upto(t, 0) = <<>>
    BY <1>2, UptoAll DEF Text
  <1>6. Count(Tail(printed), {Newline}) = Ended(t, n)
    BY DEF Ended
  <1>7. CASE lines <= 0 \/ t = <<>>
    <2>1. t = <<>> => Len(t) = 0
      OBVIOUS
    <2>2. n = 0
      BY <1>2, <1>3, <1>4, <1>7, <2>1
    <2>3. printed = <<>>
      BY <1>5, <2>2
    <2>4. (Byte(t, n + 1) \in {Newline, EOF} /\ ~(n < Len(t))) \/ lines <= 0
      BY <1>7, <2>1, <2>2 DEF Byte
    <2>5. Count(<<>>, {Newline}) = 0 /\ Len(<<>>) = 0
      BY CountEmpty
    <2> HIDE DEF printed
    <2>6. printed \in Text
      BY <1>5 DEF Text
    <2>7. Heads(t, lines, printed)
      BY <1>2, <1>5, <1>7, <2>2, <2>3, <2>4, <2>5 DEF Heads
    <2> QED BY <2>6, <2>7 DEF printed, n, r
  <1>8. CASE ~(lines <= 0 \/ t = <<>>)
    <2>1. Len(t) # 0 /\ lines > 0
      BY <1>8 DEF Text
    <2>2. n > 0
      BY <1>2, <1>3, <2>1
    <2>3. Byte(t, n + 1) \in {Newline, EOF}
      <3>1. CASE r.newlines < lines
        <4>1. ~(n + 1 <= Len(t))
          BY <1>2, <1>3, <3>1
        <4> QED BY <4>1 DEF Byte
      <3>2. CASE ~(r.newlines < lines)
        BY <1>2, <1>3, <1>4, <2>2, <3>2
      <3> QED BY <3>1, <3>2
    <2>4. Ended(t, n) < lines
      BY <1>3, <2>2
    <2>5. n < Len(t) => Ended(t, n) = lines - 1
      <3> SUFFICES ASSUME n < Len(t) PROVE Ended(t, n) = lines - 1
        OBVIOUS
      <3>1. r.newlines >= lines
        BY <1>2, <1>3
      <3> QED BY <1>2, <1>3, <1>4, <2>2, <2>4, <3>1
    <2>6. printed = Upto(t, Len(printed))
      BY <1>5
    <2>7. Byte(t, 1) # Newline => Count(printed, {Newline}) = Ended(t, n)
      <3> SUFFICES ASSUME Byte(t, 1) # Newline PROVE Count(printed, {Newline}) = Ended(t, n)
        OBVIOUS
      <3>1. Byte(t, 1) = t[1]
        BY <1>2, <2>1 DEF Byte
      <3>2. printed[1] = t[1]
        BY <1>2, <2>2, UptoAll DEF Text
      <3> HIDE DEF printed
      <3>3. printed \in Text /\ printed # <<>>
        BY <1>5, <2>2 DEF Text
      <3> QED BY <1>6, <3>1, <3>2, <3>3, RestCount
    <2> HIDE DEF printed
    <2>8. Heads(t, lines, printed)
      BY <1>5, <1>8, <2>3, <2>4, <2>5, <2>6, <2>7 DEF Heads
    <2> QED BY <1>5, <2>8 DEF Text, printed, n, r
  <1> QED BY <1>7, <1>8

\* What head has printed of its only operand.
HeadSeen ==
    tool = "head" /\ ~Helped /\ Len(ops) = 1 /\ pc \in {"main", "ok"} =>
        /\ arg = 1 => out = <<>>
        /\ arg = 2 => LET t == job.text[ops[1]] IN out = Upto(t, HeadEnd(t, par[1]).bytes)

\* The lines head is given are a number.
LEMMA HeadPar ==
    ASSUME Base, tool = "head", ~Helped
    PROVE  par[1] \in Int
  <1>1. par \in {<<>>} \cup Int \X (Nat \cup {-1})
    BY JobTypes DEF Base, JobTyped
  <1>2. par # <<>>
    BY DEF Helped
  <1> QED BY <1>1, <1>2

\* The output of head is what it prints of its operand.
LEMMA StepsHead ==
    ASSUME Base, Steps, HeadSeen
    PROVE  HeadSeen'
  <1>1. job' = job
    BY StepsBase
  <1>2. /\ tool' = tool /\ ops' = ops /\ par' = par /\ (Helped' <=> Helped)
    BY <1>1, SameJob
  <1> SUFFICES ASSUME tool = "head", ~Helped, Len(ops) = 1 PROVE HeadSeen'
    BY <1>2 DEF HeadSeen
  <1>3. CASE UNCHANGED vars
    BY <1>1, <1>2, <1>3 DEF HeadSeen, vars
  <1>4. CASE Breaks
    BY <1>4 DEF Breaks, HeadSeen, Bad
  <1>5. CASE Helps
    BY <1>5 DEF Helps
  <1>6. CASE Compares
    BY <1>6 DEF Compares
  <1>7. CASE TakesInput
    BY <1>7 DEF TakesInput
  <1>8. CASE Ends
    <2>1. arg = 2 /\ pc = "main"
      BY <1>8 DEF Ends, Base
    <2>2. out \in Text
      <3>1. Opens(ops[1])
        BY <2>1 DEF Base
      <3>2. job.text[ops[1]] \in Text
        BY <3>1, InHandTyped
      <3> QED BY <2>1, <3>2, HeadPar, HeadHeads DEF HeadSeen
    <2>3. out' = out
      BY <1>8, <2>2 DEF Ends, Text
    <2> QED BY <1>1, <1>2, <1>8, <2>1, <2>3 DEF Ends, HeadSeen
  <1>9. ASSUME NEW items, Handles(items) PROVE HeadSeen'
    <2>1. /\ arg = 1 /\ arg' = 2 /\ pc = "main" /\ out' = out \o items /\ Opens(ops[1])
          /\ items = Upto(T, HeadEnd(T, par[1]).bytes)
      BY <1>9 DEF Handles, Base, Made
    <2>2. T = job.text[ops[1]] /\ T \in Text
      BY <2>1, InHandTyped DEF T
    <2>3. items \in Text
      BY <2>1, <2>2, HeadPar, HeadHeads
    <2>4. out = <<>>
      BY <2>1 DEF HeadSeen
    <2>5. out' = items
      BY <2>1, <2>3, <2>4 DEF Text
    <2> QED BY <1>1, <1>2, <2>1, <2>2, <2>5 DEF HeadSeen
  <1> QED BY <1>3, <1>4, <1>5, <1>6, <1>7, <1>8, <1>9 DEF Steps

\* Of a text that does not begin with an empty line head prints N lines and
\* nothing of the next, or all of it if it has no more; of none if N is not
\* positive (head.c:51-61).
THEOREM HeadStops == Spec => []HeadStopsAtLine
  <1>1. Init => HeadSeen
    BY DEF Init, HeadSeen
  <1>2. Base /\ HeadSeen /\ [Next]_vars => HeadSeen'
    BY NextSteps, StepsHead
  <1>3. Base /\ HeadSeen => HeadStopsAtLine
    <2> SUFFICES ASSUME Base, HeadSeen, Done("head"), Len(ops) = 1 PROVE HeadStopsAtLine
      BY DEF HeadStopsAtLine
    <2>1. pc = "ok" /\ tool = "head" /\ ~Helped /\ arg = 2
      BY DEF Done, Base
    <2>2. Opens(ops[1])
      BY <2>1 DEF Base
    <2>3. Input = job.text[ops[1]] /\ Input \in Text
      BY <2>2, InputOfOne
    <2>4. out = Upto(Input, HeadEnd(Input, par[1]).bytes)
      BY <2>1, <2>3 DEF HeadSeen
    <2>5. Heads(Input, par[1], out)
      BY <2>1, <2>3, <2>4, HeadPar, HeadHeads
    <2> QED BY <2>5 DEF Heads, HeadStopsAtLine
  <1> QED BY <1>1, <1>2, <1>3, AllBase, PTL DEF Spec

-----------------------------------------------------------------------------
(* od *)

OdRow == [offset : Nat, bytes : Text]
Inside(o) == [n \in DOMAIN o |-> o[n].bytes]
Shown(o) == FlattenSeq([n \in DOMAIN o |-> o[n].bytes])

\* The bytes in the rows, with one row more.
LEMMA ShownNext ==
    /\ Shown(<<>>) = <<>>
    /\ \A o \in Seq(OdRow) : Shown(o) \in Text
    /\ \A o \in Seq(OdRow), r \in OdRow : Shown(Append(o, r)) = Shown(o) \o r.bytes
  <1>1. Flat(Octet)
    BY FlatLaws
  <1>2. \A r \in OdRow : r.bytes \in Text
    BY DEF OdRow
  <1>3. Inside(<<>>) = <<>>
    BY DEF Inside
  <1>4. ASSUME NEW o \in Seq(OdRow)
        PROVE  /\ Inside(o) \in Seq(Text) /\ Len(Inside(o)) = Len(o)
               /\ \A n \in 1..Len(o) : Inside(o)[n] = o[n].bytes
    BY <1>2 DEF Inside
  <1>5. ASSUME NEW o \in Seq(OdRow), NEW r \in OdRow PROVE Inside(Append(o, r)) = Append(Inside(o), r.bytes)
    <2> DEFINE b == r.bytes
    <2> DEFINE v == Inside(Append(o, r))
    <2> DEFINE w == Append(Inside(o), b)
    <2>1. b \in Text /\ Inside(o) \in Seq(Text) /\ Len(Inside(o)) = Len(o)
          /\ \A n \in 1..Len(o) : Inside(o)[n] = o[n].bytes
      BY <1>2, <1>4
    <2>2. /\ Append(o, r) \in Seq(OdRow) /\ Len(Append(o, r)) = Len(o) + 1 /\ Len(o) \in Nat
          /\ Append(o, r)[Len(o) + 1] = r /\ \A n \in 1..Len(o) : Append(o, r)[n] = o[n]
      OBVIOUS
    <2>3. /\ v \in Seq(Text) /\ Len(v) = Len(o) + 1
          /\ \A n \in 1..(Len(o) + 1) : v[n] = Append(o, r)[n].bytes
      <3> HIDE DEF Inside
      <3> DEFINE x == Append(o, r)
      <3> HIDE DEF x
      <3>1. x \in Seq(OdRow) /\ Len(x) = Len(o) + 1
        BY <2>2 DEF x
      <3>2. /\ Inside(x) \in Seq(Text) /\ Len(Inside(x)) = Len(x)
            /\ \A n \in 1..Len(x) : Inside(x)[n] = x[n].bytes
        BY <1>4, <3>1
      <3> QED BY <3>1, <3>2 DEF x
    <2> HIDE DEF b
    <2>4. /\ w \in Seq(Text) /\ Len(w) = Len(o) + 1 /\ w[Len(o) + 1] = b
          /\ \A n \in 1..Len(o) : w[n] = Inside(o)[n]
      BY <2>1, <2>2
    <2> HIDE DEF v, w
    <2>5. \A n \in 1..(Len(o) + 1) : v[n] = w[n]
      <3> SUFFICES ASSUME NEW n \in 1..(Len(o) + 1) PROVE v[n] = w[n]
        OBVIOUS
      <3>1. CASE n = Len(o) + 1
        BY <2>2, <2>3, <2>4, <3>1 DEF b
      <3>2. CASE n # Len(o) + 1
        <4>1. n \in 1..Len(o)
          BY <2>2, <3>2
        <4> QED BY <2>1, <2>2, <2>3, <2>4, <4>1
      <3> QED BY <3>1, <3>2
    <2>6. v = w
      BY <2>2, <2>3, <2>4, <2>5
    <2> QED BY <2>6 DEF v, w, b
  <1>6. \A o : Shown(o) = FlattenSeq(Inside(o))
    BY DEF Shown, Inside
  <1>7. \A o \in Seq(OdRow) : Inside(o) \in Seq(Seq(Octet))
    BY <1>4 DEF Text
  <1>8. \A r \in OdRow : r.bytes \in Seq(Octet)
    BY <1>2 DEF Text
  <1> HIDE DEF Inside
  <1>9. Shown(<<>>) = <<>>
    BY <1>1, <1>3, <1>6 DEF Flat
  <1>10. \A o \in Seq(OdRow) : Shown(o) \in Text
    BY <1>1, <1>6, <1>7 DEF Flat, Text
  <1>11. \A o \in Seq(OdRow), r \in OdRow : Shown(Append(o, r)) = Shown(o) \o r.bytes
    BY <1>1, <1>5, <1>6, <1>7, <1>8 DEF Flat
  <1> QED BY <1>9, <1>10, <1>11

\* And in the rows of two halves.
LEMMA ShownBoth ==
    ASSUME NEW o \in Seq(OdRow), NEW p \in Seq(OdRow)
    PROVE  o \o p \in Seq(OdRow) /\ Shown(o \o p) = Shown(o) \o Shown(p)
  <1> DEFINE P == {q \in Seq(OdRow) : Shown(o \o q) = Shown(o) \o Shown(q)}
  <1>1. <<>> \in P
    <2>1. o \o <<>> = o /\ <<>> \in Seq(OdRow)
      OBVIOUS
    <2>2. Shown(o) \o <<>> = Shown(o)
      BY ShownNext DEF Text
    <2> QED BY <2>1, <2>2, ShownNext
  <1>2. ASSUME NEW q \in Seq(OdRow), NEW r \in OdRow, q \in P PROVE Append(q, r) \in P
    <2>1. o \o Append(q, r) = Append(o \o q, r) /\ o \o q \in Seq(OdRow) /\ Append(q, r) \in Seq(OdRow)
      <3> HIDE DEF P
      <3> QED OBVIOUS
    <2>2. Shown(Append(o \o q, r)) = (Shown(o) \o Shown(q)) \o r.bytes
      BY <1>2, <2>1, ShownNext
    <2>3. Shown(o) \in Seq(Octet) /\ Shown(q) \in Seq(Octet) /\ r.bytes \in Seq(Octet)
      BY ShownNext DEF Text, OdRow
    <2>4. ASSUME NEW x \in Seq(Octet), NEW y \in Seq(Octet), NEW z \in Seq(Octet)
          PROVE  (x \o y) \o z = x \o (y \o z)
      BY ConcatAssociative
    <2>5. (Shown(o) \o Shown(q)) \o r.bytes = Shown(o) \o (Shown(q) \o r.bytes)
      BY <2>3, <2>4
    <2> QED BY <2>1, <2>2, <2>5, ShownNext
  <1> HIDE DEF P
  <1>3. p \in P
    BY <1>1, <1>2, OneMore
  <1> QED BY <1>3 DEF P

\* Where a row ends.
RowEnd(t, k) == IF 8 * k < Len(t) THEN 8 * k ELSE Len(t)

\* od's rows show every byte of a text in its place.
LEMMA OdShows ==
    ASSUME NEW t \in Text
    PROVE  Od(t) \in Seq(OdRow) /\ Shown(Od(t)) = t
  <1> DEFINE o == Od(t)
  <1> DEFINE K == Len(t) \div 8 + 1
  <1>1. t \in Seq(Octet) /\ Len(t) \in Nat
    BY DEF Text
  <1>2. K \in Nat /\ K >= 1 /\ 8 * K > Len(t) /\ 8 * (K - 1) <= Len(t)
    <2>1. \A n \in Nat : n \div 8 \in Nat /\ 8 * (n \div 8) <= n /\ n < 8 * (n \div 8) + 8
      OBVIOUS
    <2>2. PICK d \in Nat : d = Len(t) \div 8 /\ 8 * d <= Len(t) /\ Len(t) < 8 * d + 8
      BY <1>1, <2>1
    <2>3. K = d + 1
      BY <2>2
    <2> HIDE DEF K
    <2> QED BY <1>1, <2>2, <2>3
  <1>3. o = [k \in 1..K |-> [offset |-> 16 * (k - 1), bytes |-> SubSeq(t, 8 * k - 7, RowEnd(t, k))]]
    BY DEF Od, RowEnd
  <1> HIDE DEF o, K
  <1>4. ASSUME NEW k \in 1..K
        PROVE  /\ RowEnd(t, k) \in 0..Len(t) /\ RowEnd(t, k - 1) \in 0..RowEnd(t, k)
               /\ SubSeq(t, 8 * k - 7, RowEnd(t, k)) \in Text
               /\ Upto(t, RowEnd(t, k)) =
                     Upto(t, RowEnd(t, k - 1)) \o SubSeq(t, 8 * k - 7, RowEnd(t, k))
    <2>1. k \in Nat /\ k >= 1 /\ 8 * (k - 1) <= Len(t)
      BY <1>1, <1>2
    <2>2. RowEnd(t, k - 1) = 8 * (k - 1)
      BY <1>1, <2>1 DEF RowEnd
    <2> DEFINE e == RowEnd(t, k)
    <2> DEFINE b == 8 * (k - 1)
    <2>3. e \in Nat /\ e <= Len(t) /\ b \in Nat /\ b <= e /\ 8 * k - 7 = b + 1
      BY <1>1, <2>1 DEF RowEnd
    <2> HIDE DEF e, b
    <2>4. 1 \in 1..(Len(t) + 1) /\ b \in (1 - 1)..Len(t) /\ e \in b..Len(t)
      BY <1>1, <2>3
    <2>5. SubSeq(t, 1, b) \o SubSeq(t, b + 1, e) = SubSeq(t, 1, e)
      BY <1>1, <2>4, ConcatAdjacentSubSeq
    <2>6. SubSeq(t, b + 1, e) \in Text
      <3>1. \A z \in (b + 1)..e : z \in 1..Len(t)
        BY <1>1, <2>3
      <3>2. \A z \in (b + 1)..e : t[z] \in Octet
        BY <1>1, <3>1
      <3>3. b + 1 \in Int /\ e \in Int
        BY <2>3
      <3> QED BY <3>2, <3>3, SubSeqProperties DEF Text
    <2>7. Upto(t, b) = SubSeq(t, 1, b) /\ Upto(t, e) = SubSeq(t, 1, e)
      BY DEF Upto
    <2>8. b = RowEnd(t, k - 1) /\ e \in 0..Len(t) /\ b \in 0..e /\ SubSeq(t, b + 1, e) = SubSeq(t, 8 * k - 7, e)
      BY <1>1, <2>2, <2>3 DEF b
    <2>9. Upto(t, e) = Upto(t, RowEnd(t, k - 1)) \o SubSeq(t, 8 * k - 7, e)
      BY <2>5, <2>7, <2>8
    <2>10. SubSeq(t, 8 * k - 7, e) \in Text /\ RowEnd(t, k - 1) \in 0..e
      BY <2>6, <2>8
    <2> QED BY <2>8, <2>9, <2>10 DEF e
  <1>5. \A k \in 1..K : o[k] \in OdRow /\ o[k].bytes = SubSeq(t, 8 * k - 7, RowEnd(t, k))
    <2> SUFFICES ASSUME NEW k \in 1..K
                 PROVE  o[k] \in OdRow /\ o[k].bytes = SubSeq(t, 8 * k - 7, RowEnd(t, k))
      OBVIOUS
    <2> DEFINE s == SubSeq(t, 8 * k - 7, RowEnd(t, k))
    <2>1. o[k] = [offset |-> 16 * (k - 1), bytes |-> s] /\ s \in Text /\ 16 * (k - 1) \in Nat
      BY <1>2, <1>3, <1>4
    <2> HIDE DEF s
    <2>2. o[k] \in OdRow /\ o[k].bytes = s
      BY <2>1 DEF OdRow
    <2> QED BY <2>2 DEF s
  <1>6. o \in Seq(OdRow) /\ Len(o) = K
    <2>1. DOMAIN o = 1..K /\ o = [k \in 1..K |-> o[k]]
      BY <1>3
    <2>2. o \in [1..K -> OdRow]
      BY <1>5, <2>1
    <2> QED BY <1>2, <2>2
  <1> DEFINE M == {k \in Nat : Shown(Upto(o, k)) = Upto(t, RowEnd(t, k))}
  <1>7. 0 \in M
    <2>1. RowEnd(t, 0) = 0
      BY <1>1 DEF RowEnd
    <2>2. Upto(o, 0) = <<>> /\ Upto(t, 0) = <<>>
      BY <1>1, <1>6, UptoAll
    <2>3. Shown(Upto(o, 0)) = <<>>
      BY <2>2, ShownNext
    <2>4. Upto(t, RowEnd(t, 0)) = <<>>
      BY <2>1, <2>2
    <2> QED BY <2>3, <2>4
  <1>8. ASSUME NEW k \in 0..(K - 1), k \in M PROVE k + 1 \in M
    <2>1. k + 1 \in 1..K /\ (k + 1) - 1 = k /\ k \in Nat /\ k + 1 \in Nat /\ k \in 0..K
      BY <1>2
    <2>2. Upto(o, k + 1) = Append(Upto(o, k), o[k + 1]) /\ Upto(o, k) \in Seq(OdRow)
      BY <1>6, <2>1, UptoNext, UptoAll
    <2>3. Shown(Upto(o, k + 1)) = Shown(Upto(o, k)) \o o[k + 1].bytes
      BY <1>5, <2>1, <2>2, ShownNext
    <2>4. Upto(t, RowEnd(t, k + 1)) = Upto(t, RowEnd(t, k)) \o o[k + 1].bytes
      <3> DEFINE l == k + 1
      <3> HIDE DEF l
      <3>1. l \in 1..K /\ l - 1 = k /\ k + 1 = l
        BY <2>1 DEF l
      <3>2. Upto(t, RowEnd(t, l)) = Upto(t, RowEnd(t, l - 1)) \o o[l].bytes
        BY <1>4, <1>5, <3>1
      <3> QED BY <3>1, <3>2
    <2> QED BY <1>8, <2>1, <2>3, <2>4
  <1>9. K \in M
    <2>1. M \in SUBSET Nat
      OBVIOUS
    <2> HIDE DEF M
    <2>2. 0..K \subseteq M
      BY <1>2, <1>7, <1>8, <2>1, InductionTo
    <2> QED BY <1>2, <2>2
  <1>10. Upto(o, K) = o
    BY <1>6, UptoAll
  <1>11. RowEnd(t, K) = Len(t) /\ Upto(t, Len(t)) = t
    BY <1>1, <1>2, UptoAll DEF RowEnd
  <1>12. Shown(o) = t
    BY <1>9, <1>10, <1>11
  <1> QED BY <1>6, <1>12 DEF o

-----------------------------------------------------------------------------
(* tr *)

FirstAt(c, s1, j) == s1[j] = c /\ \A m \in 1..(j - 1) : s1[m] # c

Replaced(c, s1, s2, k, d) ==
    \/ d = c /\ \A j \in 1..k : s1[j] # c
    \/ \E j \in 1..k : FirstAt(c, s1, j) /\ d = s2[j]

\* tr's loop has replaced the byte by the first k places of its sets.
LEMMA TrReplaces ==
    ASSUME NEW s1 \in Seq(Octet), NEW s2 \in Seq(Octet), Len(s1) = Len(s2), ~Chained(s1, s2),
           NEW c \in Octet
    PROVE  Replaced(c, s1, s2, Len(s1), Translate(c, s1, s2)) /\ Translate(c, s1, s2) \in Octet
  <1> DEFINE D == DOMAIN s1
  <1> DEFINE id == Spots(s1)
  <1>1. /\ Len(s1) \in Nat /\ D = 1..Len(s1) /\ id \in Seq(D) /\ Len(id) = Len(s1)
        /\ \A k \in 1..Len(s1) : id[k] = k
    BY DEF Spots
  <1>2. Translate(c, s1, s2) = TrOf(s1, s2, c, id)
    BY TrIsFold
  <1>3. /\ TrOf(s1, s2, c, <<>>) = c
        /\ \A x \in Seq(D) : TrOf(s1, s2, c, x) \in Octet
        /\ \A x \in Seq(D), k \in D :
              TrOf(s1, s2, c, Append(x, k)) = TrStep(s1, s2, TrOf(s1, s2, c, x), k)
    BY TrLaws
  <1>4. \A m, n \in 1..Len(s1) : m < n => s2[m] # s1[n]
    BY <1>1 DEF Chained
  <1> HIDE DEF D, id
  <1> DEFINE v(k) == TrOf(s1, s2, c, Upto(id, k))
  <1> DEFINE M == {k \in Nat : Replaced(c, s1, s2, k, v(k))}
  <1>5. /\ Upto(id, 0) = <<>> /\ Upto(id, Len(s1)) = id
        /\ \A k \in 0..Len(s1) : Upto(id, k) \in Seq(D)
    BY <1>1, UptoAll
  <1>6. \A k \in 1..Len(s1) : Upto(id, k) = Append(Upto(id, k - 1), k)
    BY <1>1, UptoNext
  <1>7. 0 \in M
    <2>1. v(0) = c
      BY <1>3, <1>5
    <2> HIDE DEF v
    <2> QED BY <2>1 DEF Replaced
  <1>8. ASSUME NEW k \in 0..(Len(s1) - 1), k \in M PROVE k + 1 \in M
    <2>1. k \in Nat /\ k + 1 \in 1..Len(s1) /\ (k + 1) - 1 = k /\ k + 1 \in Nat /\ k \in 0..Len(s1)
          /\ \A j \in 1..k : j \in 1..Len(s1) /\ j \in 1..(k + 1) /\ j < k + 1
      BY <1>1
    <2>2. v(k + 1) = TrStep(s1, s2, v(k), k + 1)
      <3>1. Upto(id, k + 1) = Append(Upto(id, k), k + 1) /\ Upto(id, k) \in Seq(D) /\ k + 1 \in D
        BY <1>1, <1>5, <1>6, <2>1
      <3> QED BY <1>3, <3>1
    <2>3. Replaced(c, s1, s2, k, v(k))
      BY <1>8
    <2> HIDE DEF v
    <2>4. v(k + 1) = IF v(k) = s1[k + 1] THEN s2[k + 1] ELSE v(k)
      BY <2>2 DEF TrStep
    <2>5. CASE v(k) = c /\ \A j \in 1..k : s1[j] # c
      <3>1. CASE s1[k + 1] = c
        <4>1. FirstAt(c, s1, k + 1) /\ k + 1 \in 1..(k + 1)
          BY <2>1, <2>5, <3>1 DEF FirstAt
        <4>2. v(k + 1) = s2[k + 1]
          BY <2>4, <2>5, <3>1
        <4>3. Replaced(c, s1, s2, k + 1, v(k + 1))
          BY <4>1, <4>2 DEF Replaced
        <4> QED BY <2>1, <4>3
      <3>2. CASE s1[k + 1] # c
        <4>1. v(k + 1) = c
          BY <2>4, <2>5, <3>2
        <4>2. \A j \in 1..(k + 1) : j = k + 1 \/ j \in 1..k
          BY <2>1
        <4>3. \A j \in 1..(k + 1) : s1[j] # c
          BY <2>5, <3>2, <4>2
        <4>4. Replaced(c, s1, s2, k + 1, v(k + 1))
          BY <4>1, <4>3 DEF Replaced
        <4> QED BY <2>1, <4>4
      <3> QED BY <3>1, <3>2
    <2>6. CASE \E j \in 1..k : FirstAt(c, s1, j) /\ v(k) = s2[j]
      <3>1. PICK j \in 1..k : FirstAt(c, s1, j) /\ v(k) = s2[j]
        BY <2>6
      <3>2. v(k) # s1[k + 1]
        BY <1>4, <2>1, <3>1
      <3>3. v(k + 1) = s2[j] /\ j \in 1..(k + 1)
        BY <2>1, <2>4, <3>1, <3>2
      <3>4. Replaced(c, s1, s2, k + 1, v(k + 1))
        BY <3>1, <3>3 DEF Replaced
      <3> QED BY <2>1, <3>4
    <2> QED BY <2>3, <2>5, <2>6 DEF Replaced
  <1>9. Len(s1) \in M
    <2>1. M \in SUBSET Nat
      OBVIOUS
    <2> HIDE DEF M
    <2>2. 0..Len(s1) \subseteq M
      BY <1>1, <1>7, <1>8, <2>1, InductionTo
    <2> QED BY <1>1, <2>2
  <1>10. v(Len(s1)) = Translate(c, s1, s2) /\ v(Len(s1)) \in Octet
    BY <1>1, <1>2, <1>3, <1>5
  <1> QED BY <1>9, <1>10

\* tr makes of a byte what its sets say.
LEMMA TrMapped ==
    ASSUME NEW s1 \in Seq(Octet), NEW s2 \in Seq(Octet), Len(s1) = Len(s2), ~Chained(s1, s2),
           NEW c \in Octet
    PROVE  Translate(c, s1, s2) = Mapped(c, s1, s2) /\ Mapped(c, s1, s2) \in Octet
  <1> DEFINE d == Translate(c, s1, s2)
  <1>1. Replaced(c, s1, s2, Len(s1), d) /\ d \in Octet
    BY TrReplaces
  <1> HIDE DEF d
  <1>2. DOMAIN s1 = 1..Len(s1) /\ Len(s1) \in Nat
    OBVIOUS
  <1>3. CASE d = c /\ \A j \in 1..Len(s1) : s1[j] # c
    BY <1>1, <1>2, <1>3 DEF Mapped, d
  <1>4. CASE \E j \in 1..Len(s1) : FirstAt(c, s1, j) /\ d = s2[j]
    <2>1. PICK j \in 1..Len(s1) : FirstAt(c, s1, j) /\ d = s2[j]
      BY <1>4
    <2> DEFINE z == CHOOSE n \in DOMAIN s1 : s1[n] = c /\ \A m \in 1..(n - 1) : s1[m] # c
    <2>2. j \in DOMAIN s1 /\ s1[j] = c /\ \A m \in 1..(j - 1) : s1[m] # c
      BY <1>2, <2>1 DEF FirstAt
    <2>3. z \in DOMAIN s1 /\ s1[z] = c /\ \A m \in 1..(z - 1) : s1[m] # c
      BY <2>2
    <2>4. Mapped(c, s1, s2) = s2[z]
      BY <2>2 DEF Mapped
    <2> HIDE DEF z
    <2>5. z = j
      BY <1>2, <2>2, <2>3
    <2> QED BY <1>1, <2>1, <2>4, <2>5 DEF d
  <1> QED BY <1>1, <1>3, <1>4 DEF Replaced

\* Equal in length and in every byte is equal.
LEMMA ByBytes ==
    ASSUME NEW g \in [Octet -> Octet], NEW x \in Text, NEW t \in Text
    PROVE  [n \in DOMAIN x |-> g[x[n]]] \o [n \in DOMAIN t |-> g[t[n]]]
              = [n \in DOMAIN (x \o t) |-> g[(x \o t)[n]]]
  <1>1. x \in Seq(Octet) /\ t \in Seq(Octet) /\ Len(x) \in Nat /\ Len(t) \in Nat
    BY DEF Text
  <1> DEFINE y == x \o t
  <1>2. /\ y \in Seq(Octet) /\ Len(y) = Len(x) + Len(t)
        /\ \A n \in 1..Len(x) : y[n] = x[n]
        /\ \A n \in (Len(x) + 1)..(Len(x) + Len(t)) : y[n] = t[n - Len(x)]
    BY <1>1
  <1> DEFINE u == [n \in DOMAIN x |-> g[x[n]]]
  <1> DEFINE v == [n \in DOMAIN t |-> g[t[n]]]
  <1> DEFINE w == [n \in DOMAIN y |-> g[y[n]]]
  <1> HIDE DEF y
  <1>3. /\ u \in Seq(Octet) /\ Len(u) = Len(x) /\ \A n \in 1..Len(x) : u[n] = g[x[n]]
    BY <1>1
  <1>4. /\ v \in Seq(Octet) /\ Len(v) = Len(t) /\ \A n \in 1..Len(t) : v[n] = g[t[n]]
    BY <1>1
  <1>5. /\ w \in Seq(Octet) /\ Len(w) = Len(y) /\ \A n \in 1..Len(y) : w[n] = g[y[n]]
    BY <1>2
  <1> HIDE DEF u, v, w
  <1>6. /\ u \o v \in Seq(Octet) /\ Len(u \o v) = Len(x) + Len(t)
        /\ \A n \in 1..Len(x) : (u \o v)[n] = u[n]
        /\ \A n \in (Len(x) + 1)..(Len(x) + Len(t)) : (u \o v)[n] = v[n - Len(x)]
    BY <1>1, <1>3, <1>4
  <1> DEFINE z == u \o v
  <1> HIDE DEF z
  <1>7. \A n \in 1..(Len(x) + Len(t)) : z[n] = w[n]
    <2> SUFFICES ASSUME NEW n \in 1..(Len(x) + Len(t)) PROVE z[n] = w[n]
      OBVIOUS
    <2>1. w[n] = g[y[n]]
      BY <1>2, <1>5
    <2>2. CASE n <= Len(x)
      <3>1. n \in 1..Len(x)
        BY <1>1, <2>2
      <3> QED BY <1>2, <1>3, <1>6, <2>1, <3>1 DEF z
    <2>3. CASE n > Len(x)
      <3>1. n \in (Len(x) + 1)..(Len(x) + Len(t)) /\ n - Len(x) \in 1..Len(t)
        BY <1>1, <2>3
      <3> QED BY <1>2, <1>4, <1>6, <2>1, <3>1 DEF z
    <2> QED BY <1>1, <2>2, <2>3
  <1>8. z = w
    BY <1>2, <1>5, <1>6, <1>7 DEF z
  <1> QED BY <1>8 DEF u, v, w, y, z

\* What tr makes of t goes on after what it made of x.
MapsOn(s1, s2, x, t) ==
    [n \in DOMAIN x |-> Mapped(x[n], s1, s2)] \o Tr(t, s1, s2)
       = [n \in DOMAIN (x \o t) |-> Mapped((x \o t)[n], s1, s2)]

\* The replacements of two texts are those of both in one.
LEMMA TrBoth ==
    ASSUME NEW s1 \in Seq(Octet), NEW s2 \in Seq(Octet), Len(s1) = Len(s2), ~Chained(s1, s2),
           NEW x \in Text, NEW t \in Text
    PROVE  MapsOn(s1, s2, x, t)
  <1> DEFINE g == [c \in Octet |-> Mapped(c, s1, s2)]
  <1>1. \A c \in Octet : Translate(c, s1, s2) = Mapped(c, s1, s2) /\ Mapped(c, s1, s2) \in Octet
    BY TrMapped
  <1>2. g \in [Octet -> Octet] /\ \A c \in Octet : g[c] = Mapped(c, s1, s2)
    BY <1>1
  <1> HIDE DEF g
  <1>3. x \o t \in Text
    BY DEF Text
  <1>4. ASSUME NEW y \in Text
        PROVE  /\ [n \in DOMAIN y |-> Mapped(y[n], s1, s2)] = [n \in DOMAIN y |-> g[y[n]]]
               /\ Tr(y, s1, s2) = [n \in DOMAIN y |-> g[y[n]]]
    <2>1. \A n \in DOMAIN y : y[n] \in Octet
      BY DEF Text
    <2>2. \A n \in DOMAIN y : /\ Mapped(y[n], s1, s2) = g[y[n]]
                              /\ Translate(y[n], s1, s2) = g[y[n]]
      BY <1>1, <1>2, <2>1
    <2> QED BY <2>2, Zenon DEF Tr
  <1>5. [n \in DOMAIN x |-> g[x[n]]] \o [n \in DOMAIN t |-> g[t[n]]]
              = [n \in DOMAIN (x \o t) |-> g[(x \o t)[n]]]
    BY <1>2, ByBytes
  <1> QED BY <1>3, <1>4, <1>5 DEF MapsOn

-----------------------------------------------------------------------------
(* What was read so far *)

Read(n) == FlattenSeq([k \in 1..n |-> job.text[ops[k]]])

\* One operand more is read.
LEMMA ReadNext ==
    ASSUME Base
    PROVE  /\ Read(0) = <<>>
           /\ \A n \in 0..(arg - 1) : Read(n) \in Text
           /\ \A n \in 0..(Len(ops) - 1) :
                 n + 1 <= arg /\ Opens(ops[n + 1]) /\ n <= arg - 1 =>
                    Read(n + 1) = Read(n) \o job.text[ops[n + 1]]
  <1> DEFINE x(k) == job.text[ops[k]]
  <1> DEFINE s(n) == [k \in 1..n |-> x(k)]
  <1>1. arg \in 1..(Len(ops) + 1) /\ Len(ops) \in Nat /\ arg \in Nat
    BY JobTypes DEF Base, JobTyped
  <1>2. \A k \in 1..Len(ops) : Opens(ops[k]) => x(k) \in Text
    BY InHandTyped
  <1>3. \A k \in 1..(arg - 1) : Opens(ops[k]) /\ k \in 1..Len(ops)
    BY <1>1 DEF Base
  <1>4. \A n : Read(n) = FlattenSeq(s(n))
    BY DEF Read
  <1> HIDE DEF x
  <1>5. \A n \in 0..(arg - 1) : s(n) \in Seq(Text) /\ Len(s(n)) = n
    <2> SUFFICES ASSUME NEW n \in 0..(arg - 1) PROVE s(n) \in Seq(Text) /\ Len(s(n)) = n
      OBVIOUS
    <2>1. n \in Nat /\ \A k \in 1..n : k \in 1..(arg - 1)
      BY <1>1
    <2>2. \A k \in 1..n : x(k) \in Text
      BY <1>2, <1>3, <2>1
    <2> QED BY <2>1, <2>2
  <1>6. s(0) = <<>>
    OBVIOUS
  <1>7. Flat(Octet)
    BY FlatLaws
  <1>8. Read(0) = <<>>
    BY <1>4, <1>6, <1>7 DEF Flat
  <1>9. \A n \in 0..(arg - 1) : Read(n) \in Text
    <2> HIDE DEF s
    <2> QED BY <1>4, <1>5, <1>7 DEF Flat, Text
  <1>10. ASSUME NEW n \in 0..(Len(ops) - 1), n + 1 <= arg, Opens(ops[n + 1]), n <= arg - 1
         PROVE  Read(n + 1) = Read(n) \o x(n + 1)
    <2>1. n \in 0..(arg - 1) /\ n + 1 \in 1..Len(ops) /\ n \in Nat
      BY <1>1, <1>10
    <2> DEFINE y == x(n + 1)
    <2>2. y \in Text
      BY <1>2, <1>10, <2>1
    <2>3. s(n + 1) = Append(s(n), y)
      <3>1. s(n) \in Seq(Text) /\ Len(s(n)) = n /\ \A k \in 1..n : s(n)[k] = x(k)
        BY <1>5, <2>1
      <3>2. Len(s(n + 1)) = n + 1 /\ s(n + 1) \in Seq(Text) /\ \A k \in 1..(n + 1) : s(n + 1)[k] = x(k)
        <4>1. \A k \in 1..(n + 1) : k = n + 1 \/ k \in 1..(arg - 1)
          BY <1>1, <2>1
        <4>2. \A k \in 1..(n + 1) : x(k) \in Text
          BY <1>2, <1>3, <2>2, <4>1
        <4> QED BY <2>1, <4>2
      <3> DEFINE u == s(n)
      <3> DEFINE v == s(n + 1)
      <3> DEFINE w == Append(u, y)
      <3>3. u \in Seq(Text) /\ Len(u) = n /\ \A k \in 1..n : u[k] = x(k)
        BY <3>1
      <3>4. Len(v) = n + 1 /\ v \in Seq(Text) /\ \A k \in 1..(n + 1) : v[k] = x(k)
        BY <3>2
      <3> HIDE DEF s, u, v
      <3>5. y \in Text /\ y = x(n + 1)
        BY <2>2
      <3> HIDE DEF y
      <3>6. /\ w \in Seq(Text) /\ Len(w) = n + 1 /\ w[n + 1] = y
            /\ \A k \in 1..n : w[k] = u[k]
        BY <2>1, <3>3, <3>5
      <3> HIDE DEF w
      <3>7. \A k \in 1..(n + 1) : k = n + 1 \/ k \in 1..n
        BY <2>1
      <3>8. \A k \in 1..(n + 1) : v[k] = w[k]
        BY <3>3, <3>4, <3>5, <3>6, <3>7
      <3>9. v = w
        BY <2>1, <3>4, <3>6, <3>8
      <3> QED BY <3>9 DEF u, v, w
    <2> HIDE DEF s
    <2>4. s(n) \in Seq(Seq(Octet)) /\ y \in Seq(Octet)
      BY <1>5, <2>1, <2>2 DEF Text
    <2> HIDE DEF y
    <2>5. FlattenSeq(s(n + 1)) = FlattenSeq(s(n)) \o y
      BY <1>7, <2>3, <2>4 DEF Flat
    <2> QED BY <1>4, <2>5 DEF y
  <1> QED BY <1>8, <1>9, <1>10 DEF x

\* When all operands were handled, all the input was read.
LEMMA ReadAll ==
    ASSUME Base, ops # <<>>
    PROVE  Input = Read(Len(ops))
  <1>1. DOMAIN ops = 1..Len(ops)
    BY JobTypes DEF Base, JobTyped
  <1>2. Input = FlattenSeq([n \in DOMAIN ops |-> job.text[ops[n]]])
    BY DEF Input
  <1> QED BY <1>1, <1>2, Zenon DEF Read

-----------------------------------------------------------------------------
(* cat, od and tr *)

Filters == {"cat", "od", "tr"}

\* What was printed, o, is what tool p, with its parameters q, makes of x.
Agrees(p, q, x, o) ==
    /\ p = "cat" => o = x
    /\ p = "od" => o \in Seq(OdRow) /\ Shown(o) = x
    /\ p = "tr" /\ ~Chained(q[1], q[2]) => o = [n \in DOMAIN x |-> Mapped(x[n], q[1], q[2])]

\* Before the first operand nothing was read and nothing came out.
LEMMA AgreesNone ==
    ASSUME NEW p, NEW q
    PROVE  Agrees(p, q, <<>>, <<>>)
  <1>1. <<>> \in Seq(OdRow) /\ Shown(<<>>) = <<>>
    BY ShownNext
  <1>2. <<>> = [n \in DOMAIN <<>> |-> Mapped(<<>>[n], q[1], q[2])]
    OBVIOUS
  <1> QED BY <1>1, <1>2 DEF Agrees

\* A tool that stops leaves both as they are.
LEMMA AgreesSame ==
    ASSUME NEW p \in Filters, NEW q, NEW x \in Text, NEW o, Agrees(p, q, x, o)
    PROVE  Agrees(p, q, x, o \o <<>>)
  <1>1. ASSUME NEW S, o \in Seq(S) PROVE o \o <<>> = o
    BY <1>1
  <1>2. CASE p = "cat"
    <2>1. o \in Seq(Octet)
      BY <1>2 DEF Agrees, Text
    <2> QED BY <1>1, <2>1
  <1>3. CASE p = "od"
    <2>1. o \in Seq(OdRow)
      BY <1>3 DEF Agrees
    <2> QED BY <1>1, <2>1
  <1>4. CASE p = "tr"
    <2> SUFFICES ASSUME ~Chained(q[1], q[2]) PROVE Agrees(p, q, x, o \o <<>>)
      BY <1>4 DEF Agrees
    <2> DEFINE S == {Mapped(x[n], q[1], q[2]) : n \in DOMAIN x}
    <2>1. o = [n \in DOMAIN x |-> Mapped(x[n], q[1], q[2])]
      BY <1>4 DEF Agrees
    <2>2. DOMAIN x = 1..Len(x) /\ Len(x) \in Nat
      BY DEF Text
    <2>3. o \in [1..Len(x) -> S]
      BY <2>1, <2>2
    <2> HIDE DEF S
    <2>4. o \in Seq(S)
      BY <2>2, <2>3
    <2> QED BY <1>1, <2>4
  <1> QED BY <1>2, <1>3, <1>4 DEF Filters

\* Each of the filters passes on the text in hand.
LEMMA AgreesMore ==
    ASSUME NEW p \in Filters, NEW q, NEW x \in Text, NEW o, Agrees(p, q, x, o),
           NEW t \in Text, NEW items,
           p = "cat" => items = Cat(t),
           p = "od" => items = Od(t),
           p = "tr" => q \in Text \X Text /\ Len(q[1]) = Len(q[2]) /\ items = Tr(t, q[1], q[2])
    PROVE  Agrees(p, q, x \o t, o \o items)
  <1>1. CASE p = "cat"
    BY <1>1 DEF Agrees, Cat
  <1>2. CASE p = "od"
    <2>1. o \in Seq(OdRow) /\ Shown(o) = x /\ items \in Seq(OdRow) /\ Shown(items) = t
      BY <1>2, OdShows DEF Agrees
    <2>2. o \o items \in Seq(OdRow) /\ Shown(o \o items) = x \o t
      BY <2>1, ShownBoth
    <2> QED BY <1>2, <2>2 DEF Agrees
  <1>3. CASE p = "tr"
    <2> SUFFICES ASSUME ~Chained(q[1], q[2]) PROVE Agrees(p, q, x \o t, o \o items)
      BY <1>3 DEF Agrees
    <2>1. q[1] \in Seq(Octet) /\ q[2] \in Seq(Octet)
      BY <1>3 DEF Text
    <2>2. o = [n \in DOMAIN x |-> Mapped(x[n], q[1], q[2])]
      BY <1>3 DEF Agrees
    <2>3. items = Tr(t, q[1], q[2]) /\ Len(q[1]) = Len(q[2])
      BY <1>3
    <2>4. MapsOn(q[1], q[2], x, t)
      <3> DEFINE s1 == q[1]
      <3> DEFINE s2 == q[2]
      <3>1. s1 \in Seq(Octet) /\ s2 \in Seq(Octet) /\ Len(s1) = Len(s2) /\ ~Chained(s1, s2)
        BY <2>1, <2>3
      <3> HIDE DEF s1, s2
      <3>2. MapsOn(s1, s2, x, t)
        BY <3>1, TrBoth
      <3> QED BY <3>2 DEF s1, s2
    <2>5. o \o items = [n \in DOMAIN (x \o t) |-> Mapped((x \o t)[n], q[1], q[2])]
      BY <2>2, <2>3, <2>4, Zenon DEF MapsOn
    <2> QED BY <1>3, <2>5, Zenon DEF Agrees
  <1> QED BY <1>1, <1>2, <1>3 DEF Filters

Seen ==
    IF ops = <<>> THEN (IF pc = "ok" THEN job.text.stdin ELSE <<>>)
    ELSE Read(arg - 1)

\* At every operand the output is what the tool makes of the bytes before it.
Passed ==
    tool \in Filters /\ ~Helped /\ pc \in {"main", "ok"} => Agrees(tool, par, Seen, out)

\* What came out has the type of the tool's output.
LEMMA SeenTyped ==
    ASSUME Base
    PROVE  Seen \in Text
  <1>1. job.text["stdin"] \in Text /\ Len(ops) \in Nat
    BY JobTypes DEF Base, JobTyped, Files
  <1>2. <<>> \in Text
    BY Texts
  <1>3. arg - 1 \in 0..(arg - 1)
    BY <1>1 DEF Base
  <1> QED BY <1>1, <1>2, <1>3, ReadNext DEF Seen

\* Every step leaves the output the image of what was read.
LEMMA StepsPassed ==
    ASSUME Base, Steps, Passed
    PROVE  Passed'
  <1>1. job' = job /\ Base'
    BY StepsBase
  <1>2. /\ tool' = tool /\ ops' = ops /\ par' = par /\ (Helped' <=> Helped)
    BY <1>1, SameJob
  <1> SUFFICES ASSUME tool \in Filters, ~Helped, pc' \in {"main", "ok"}
               PROVE  Agrees(tool, par, Seen', out')
    BY <1>2 DEF Passed
  <1>3. ASSUME arg' = arg, pc' = pc PROVE Seen' = Seen
    BY <1>1, <1>2, <1>3 DEF Seen, Read
  <1>4. CASE UNCHANGED vars
    BY <1>3, <1>4 DEF Passed, vars
  <1>5. CASE Breaks
    BY <1>5 DEF Breaks, Bad
  <1>6. CASE Helps
    BY <1>6 DEF Helps
  <1>7. CASE Compares
    BY <1>7 DEF Compares, Filters
  <1>8. CASE TakesInput
    <2>1. /\ ops = <<>> /\ pc = "main" /\ pc' = "ok" /\ tool = "cat"
          /\ out' = out \o Cat(job.text.stdin)
      BY <1>8 DEF TakesInput, Filters
    <2>2. Seen = <<>> /\ Seen' = job.text.stdin /\ Agrees(tool, par, <<>>, out)
      BY <1>1, <1>2, <2>1 DEF Seen, Passed
    <2>3. job.text["stdin"] \in Text /\ <<>> \in Text
      BY JobTypes, Texts DEF Base, JobTyped, Files
    <2>4. <<>> \o job.text["stdin"] = job.text["stdin"]
      BY <2>3 DEF Text
    <2>5. Agrees(tool, par, <<>> \o job.text["stdin"], out')
      <3> DEFINE t == job.text["stdin"]
      <3> DEFINE items == Cat(t)
      <3>1. t \in Text /\ out' = out \o items
        BY <2>1, <2>3
      <3>2. tool = "cat" /\ items = Cat(t)
        BY <2>1
      <3> HIDE DEF t, items
      <3>3. Agrees(tool, par, <<>> \o t, out \o items)
        BY <2>2, <2>3, <3>1, <3>2, AgreesMore
      <3> QED BY <3>1, <3>3 DEF t
    <2> QED BY <2>2, <2>4, <2>5
  <1>9. CASE Ends
    <2>1. out' = out \o <<>> /\ pc = "main" /\ arg' = arg
      BY <1>9 DEF Ends
    <2>2. ops # <<>>
      <3>1. Len(<<>>) = 0
        OBVIOUS
      <3> QED BY <1>9, <3>1 DEF Ends, Helped, Needed, Filters
    <2>3. Seen' = Seen
      BY <1>1, <1>2, <2>1, <2>2 DEF Seen, Read
    <2> QED BY <2>1, <2>3, SeenTyped, AgreesSame DEF Passed
  <1>10. ASSUME NEW items, Handles(items) PROVE Agrees(tool, par, Seen', out')
    <2>1. /\ arg' = arg + 1 /\ pc = "main" /\ pc' = pc /\ arg \in 1..Len(ops) /\ Opens(ops[arg])
          /\ out' = out \o items /\ Made(items) /\ Len(ops) \in Nat
      BY <1>10, JobTypes DEF Handles, Base, JobTyped
    <2>2. T \in Text /\ T = job.text[ops[arg]]
      BY <2>1, InHandTyped DEF T
    <2>3. ops # <<>>
      <3>1. Len(<<>>) = 0
        OBVIOUS
      <3> QED BY <2>1, <3>1
    <2>4. Seen = Read(arg - 1) /\ Seen' = Read(arg)
      <3>1. arg' - 1 = arg
        BY <2>1
      <3>2. Seen' = Read(arg' - 1)
        BY <1>1, <1>2, <2>3 DEF Seen, Read
      <3> QED BY <1>1, <1>2, <2>3, <3>1 DEF Seen, Read
    <2>5. Read(arg) = Seen \o T
      <3> DEFINE n == arg - 1
      <3>1. n \in 0..(Len(ops) - 1) /\ n + 1 = arg /\ n + 1 <= arg /\ n <= arg - 1
        BY <2>1
      <3> HIDE DEF n
      <3>2. Read(n + 1) = Read(n) \o job.text[ops[n + 1]]
        BY <2>1, <3>1, ReadNext
      <3> QED BY <2>2, <2>4, <3>1, <3>2 DEF n
    <2>6. tool = "tr" => par \in Text \X Text
      BY JobTypes DEF Base, JobTyped
    <2>7. Agrees(tool, par, Seen, out) /\ Seen \in Text
      BY <2>1, SeenTyped DEF Passed
    <2>8. Agrees(tool, par, Seen \o T, out \o items)
      BY <2>1, <2>2, <2>6, <2>7, AgreesMore DEF Made
    <2> QED BY <2>1, <2>4, <2>5, <2>8
  <1> QED BY <1>4, <1>5, <1>6, <1>7, <1>8, <1>9, <1>10 DEF Steps

-----------------------------------------------------------------------------
(* nl *)

\* Nothing of a text is lost between its lines.
LEMMA LinesAll ==
    ASSUME NEW t \in Text
    PROVE  Lines(t) \in Seq(Text) /\ FlattenSeq(Lines(t)) = t
  <1> DEFINE P == {x \in Seq(Octet) : FlattenSeq(LinesOf(x).lines) \o LinesOf(x).line = x}
  <1>1. Flat(Octet)
    BY FlatLaws
  <1>2. /\ FlattenSeq(<<>>) = <<>>
        /\ \A ls \in Seq(Text) : FlattenSeq(ls) \in Text
        /\ \A ls \in Seq(Text), l \in Text : FlattenSeq(Append(ls, l)) = FlattenSeq(ls) \o l
    BY <1>1 DEF Flat, Text
  <1>3. <<>> \in P
    <2>1. <<>> \o <<>> = <<>> /\ <<>> \in Seq(Octet)
      OBVIOUS
    <2>2. LinesOf(<<>>).lines = <<>> /\ LinesOf(<<>>).line = <<>>
      BY LinesLaws
    <2> QED BY <1>2, <2>1, <2>2
  <1>4. ASSUME NEW x \in Seq(Octet), NEW c \in Octet, x \in P PROVE Append(x, c) \in P
    <2> DEFINE s == LinesOf(x)
    <2>1. s \in Reading /\ LinesOf(Append(x, c)) = LinesStep(s, c)
      BY LinesLaws
    <2>2. FlattenSeq(s.lines) \o s.line = x
      BY <1>4
    <2> HIDE DEF s
    <2>3. s.lines \in Seq(Text) /\ s.line \in Text
      BY <2>1 DEF Reading
    <2> DEFINE f == FlattenSeq(s.lines)
    <2> DEFINE l == s.line
    <2>4. f \in Seq(Octet) /\ l \in Seq(Octet) /\ f \o l = x
      BY <1>2, <2>2, <2>3 DEF Text
    <2> HIDE DEF f, l
    <2>5. f \o Append(l, c) = Append(x, c) /\ (f \o Append(l, c)) \o <<>> = Append(x, c)
          /\ Append(x, c) \in Seq(Octet)
      <3>1. f \o Append(l, c) = Append(f \o l, c)
        BY <2>4
      <3> QED BY <2>4, <3>1
    <2>6. CASE c = Newline
      <3>1. /\ LinesStep(s, c).lines = Append(s.lines, Append(l, c))
            /\ LinesStep(s, c).line = <<>>
        BY <2>6 DEF LinesStep, l
      <3>2. Append(l, c) \in Text
        BY <2>4 DEF Text
      <3>3. FlattenSeq(LinesStep(s, c).lines) = f \o Append(l, c)
        BY <1>2, <2>3, <3>1, <3>2 DEF f
      <3> QED BY <2>1, <2>5, <3>1, <3>3
    <2>7. CASE c # Newline
      <3>1. LinesStep(s, c).lines = s.lines /\ LinesStep(s, c).line = Append(l, c)
        BY <2>7 DEF LinesStep, l
      <3> QED BY <2>1, <2>5, <3>1 DEF f
    <2> QED BY <2>6, <2>7
  <1> HIDE DEF P
  <1>5. t \in P
    <2>1. Seq(Octet) \subseteq P
      BY <1>3, <1>4, OneMore
    <2> QED BY <2>1 DEF Text
  <1> DEFINE s == LinesOf(t)
  <1>6. s \in Reading /\ FlattenSeq(s.lines) \o s.line = t
    BY <1>5, LinesLaws DEF P, Text
  <1>7. Lines(t) = IF s.line = <<>> THEN s.lines ELSE Append(s.lines, s.line)
    BY LinesIsFold DEF Text
  <1> HIDE DEF s
  <1>8. s.lines \in Seq(Text) /\ s.line \in Text
    BY <1>6 DEF Reading
  <1>9. Append(s.lines, s.line) \in Seq(Text)
    BY <1>8, Texts
  <1>10. s.line = <<>> => FlattenSeq(s.lines) = t
    <2>1. FlattenSeq(s.lines) \in Seq(Octet)
      BY <1>2, <1>8 DEF Text
    <2>2. FlattenSeq(s.lines) \o <<>> = FlattenSeq(s.lines)
      BY <2>1
    <2> QED BY <1>6, <2>2
  <1> QED BY <1>2, <1>6, <1>7, <1>8, <1>9, <1>10

\* What nl prints of one file.
Numbers(t, printed) ==
    /\ FlattenSeq(Texted(printed)) =
          IF Last(t) = Newline THEN t \o Last(Lines(t)) ELSE t
    /\ \A n \in DOMAIN printed : printed[n].number = n

\* nl's lines are those of the text, and the last again if it ends, numbered
\* from 1.
LEMMA NlNumbers ==
    ASSUME NEW t \in Text, t # <<>>
    PROVE  Numbers(t, Nl(t)) /\ <<>> \o Nl(t) = Nl(t) /\ Nl(t) \o <<>> = Nl(t)
  <1> DEFINE read == Lines(t)
  <1> DEFINE all == IF Last(t) = Newline THEN Append(read, Last(read)) ELSE read
  <1> DEFINE o == [n \in DOMAIN all |-> [number |-> n, line |-> all[n]]]
  <1>1. Nl(t) = o
    BY DEF Nl
  <1>2. read \in Seq(Text) /\ FlattenSeq(read) = t
    BY LinesAll
  <1>3. read # <<>>
    <2>1. Flat(Octet)
      BY FlatLaws
    <2> QED BY <1>2, <2>1 DEF Flat
  <1> HIDE DEF read
  <1>4. Last(read) \in Text
    <2>1. Len(read) \in 1..Len(read)
      BY <1>2, <1>3
    <2> QED BY <1>2, <2>1 DEF Last
  <1>5. /\ all \in Seq(Text) /\ Len(all) \in Nat /\ DOMAIN all = 1..Len(all)
        /\ \A n \in DOMAIN read : n \in DOMAIN all /\ all[n] = read[n]
    <2> DEFINE e == Last(read)
    <2>1. e \in Text
      BY <1>4
    <2> HIDE DEF e
    <2>2. /\ Append(read, e) \in Seq(Text)
          /\ \A n \in DOMAIN read : n \in DOMAIN Append(read, e) /\ Append(read, e)[n] = read[n]
      BY <1>2, <2>1
    <2> DEFINE more == Append(read, e)
    <2>3. /\ more \in Seq(Text)
          /\ \A n \in DOMAIN read : n \in DOMAIN more /\ more[n] = read[n]
      BY <2>2
    <2>4. all = more \/ all = read
      BY DEF e
    <2> HIDE DEF more, all
    <2> QED BY <1>2, <2>3, <2>4
  <1> HIDE DEF all
  <1>6. \A n \in DOMAIN all : o[n].number = n /\ o[n].line = all[n]
    OBVIOUS
  <1>7. DOMAIN o = DOMAIN all
    OBVIOUS
  <1>8. o \in Seq({o[n] : n \in DOMAIN all})
    <2> DEFINE S == {o[n] : n \in DOMAIN all}
    <2>1. o \in [1..Len(all) -> S]
      BY <1>5
    <2> HIDE DEF S, o
    <2>2. o \in Seq(S)
      BY <1>5, <2>1
    <2> QED BY <2>2 DEF S
  <1> HIDE DEF o
  <1>9. <<>> \o o = o /\ o \o <<>> = o
    <2> DEFINE S == {o[n] : n \in DOMAIN all}
    <2>1. o \in Seq(S)
      BY <1>8
    <2> HIDE DEF S
    <2> QED BY <2>1
  <1>10. Texted(o) = all
    <2>1. Texted(o) = [n \in DOMAIN all |-> all[n]]
      BY <1>6, <1>7 DEF Texted
    <2>2. all = [n \in DOMAIN all |-> all[n]]
      BY <1>5
    <2> QED BY <2>1, <2>2
  <1>11. FlattenSeq(all) = IF Last(t) = Newline THEN t \o Last(read) ELSE t
    <2>1. Flat(Octet)
      BY FlatLaws
    <2>2. FlattenSeq(Append(read, Last(read))) = FlattenSeq(read) \o Last(read)
      BY <1>2, <1>4, <2>1 DEF Flat, Text
    <2> QED BY <1>2, <2>2 DEF all
  <1>12. Numbers(t, o)
    BY <1>6, <1>7, <1>10, <1>11 DEF Numbers, read
  <1> QED BY <1>1, <1>9, <1>12

\* What nl has printed of its only operand, if it is not empty.
NlSeen ==
    tool = "nl" /\ ~Helped /\ Len(ops) = 1 /\ pc \in {"main", "ok"} =>
        /\ arg = 1 => out = <<>>
        /\ arg = 2 /\ job.text[ops[1]] # <<>> => out = Nl(job.text[ops[1]])

\* The output of nl is the numbered lines of its operand.
LEMMA StepsNl ==
    ASSUME Base, Steps, NlSeen
    PROVE  NlSeen'
  <1>1. job' = job
    BY StepsBase
  <1>2. /\ tool' = tool /\ ops' = ops /\ (Helped' <=> Helped)
    BY <1>1, SameJob
  <1> SUFFICES ASSUME tool = "nl", ~Helped, Len(ops) = 1 PROVE NlSeen'
    BY <1>2 DEF NlSeen
  <1>3. CASE UNCHANGED vars
    BY <1>1, <1>2, <1>3 DEF NlSeen, vars
  <1>4. CASE Breaks
    BY <1>4 DEF Breaks, NlSeen, Bad
  <1>5. CASE Helps
    BY <1>5 DEF Helps
  <1>6. CASE Compares
    BY <1>6 DEF Compares
  <1>7. CASE TakesInput
    BY <1>7 DEF TakesInput
  <1> DEFINE t == job.text[ops[1]]
  <1>8. CASE Ends
    <2>1. arg = 2 /\ pc = "main" /\ Opens(ops[1])
      BY <1>8 DEF Ends, Base
    <2>2. t \in Text
      BY <2>1, InHandTyped
    <2>3. t # <<>> => out' = Nl(t)
      BY <1>8, <2>1, <2>2, NlNumbers DEF NlSeen, Ends
    <2>4. arg' = 2
      BY <1>8, <2>1 DEF Ends
    <2> QED BY <1>1, <1>2, <2>3, <2>4 DEF NlSeen
  <1>9. ASSUME NEW items, Handles(items) PROVE NlSeen'
    <2>1. /\ arg = 1 /\ arg' = 2 /\ pc = "main" /\ out' = out \o items /\ Opens(ops[1])
          /\ (T # <<>> => items = Nl(T))
      BY <1>9 DEF Handles, Base, Made
    <2>2. T = t /\ t \in Text
      BY <2>1, InHandTyped DEF T
    <2>3. out = <<>>
      BY <2>1 DEF NlSeen
    <2>4. t # <<>> => out' = Nl(t)
      BY <2>1, <2>2, <2>3, NlNumbers
    <2> QED BY <1>1, <1>2, <2>1, <2>4 DEF NlSeen
  <1> QED BY <1>3, <1>4, <1>5, <1>6, <1>7, <1>8, <1>9 DEF Steps

\* With all the input read, the output is its image.
LEMMA FiltersDone ==
    ASSUME Base, Passed, NlSeen
    PROVE  FiltersAreComplete
  <1>1. ASSUME pc = "ok", tool \in Filters, ~Helped PROVE Agrees(tool, par, Input, out)
    <2>1. Seen = Input
      <3>1. CASE ops = <<>>
        BY <1>1, <3>1 DEF Seen, Input
      <3>2. CASE ops # <<>>
        <4>1. arg = Len(ops) + 1 /\ Len(ops) \in Nat
          BY <1>1, JobTypes DEF Base, JobTyped, Filters
        <4>2. arg - 1 = Len(ops)
          BY <4>1
        <4> QED BY <3>2, <4>2, ReadAll DEF Seen
      <3> QED BY <3>1, <3>2
    <2> QED BY <1>1, <2>1 DEF Passed
  <1>2. Done("cat") => out = Input
    BY <1>1 DEF Done, Filters, Agrees
  <1>3. Done("od") => FlattenSeq([n \in DOMAIN out |-> out[n].bytes]) = Input
    <2> SUFFICES ASSUME Done("od") PROVE Shown(out) = Input
      BY DEF Shown
    <2> QED BY <1>1 DEF Done, Filters, Agrees
  <1>4. Done("tr") /\ ~Chained(par[1], par[2]) =>
           out = [n \in DOMAIN Input |-> Mapped(Input[n], par[1], par[2])]
    BY <1>1 DEF Done, Filters, Agrees
  <1>6. ASSUME Done("nl"), Len(ops) = 1, Input # <<>> PROVE Numbers(Input, out)
    <2>1. pc = "ok" /\ tool = "nl" /\ ~Helped /\ arg = 2
      BY <1>6 DEF Done, Base
    <2>2. Opens(ops[1])
      BY <2>1 DEF Base
    <2>3. Input = job.text[ops[1]] /\ Input \in Text
      BY <1>6, <2>2, InputOfOne
    <2>4. out = Nl(Input)
      BY <1>6, <2>1, <2>3 DEF NlSeen
    <2> QED BY <1>6, <2>3, <2>4, NlNumbers
  <1>7. Done("nl") /\ Len(ops) = 1 /\ Input # <<>> =>
           /\ FlattenSeq(Texted(out)) =
                 IF Last(Input) = Newline THEN Input \o Last(Lines(Input)) ELSE Input
           /\ \A n \in DOMAIN out : out[n].number = n
    BY <1>6 DEF Numbers
  <1> QED BY <1>2, <1>3, <1>4, <1>7 DEF FiltersAreComplete

\* What comes in comes out, once and in its order, through cat, od and tr; nl
\* numbers its lines and prints a last line that ends twice (cat.c:49-53,
\* od.c:45-57, tr.c:50-61, nl.c:60-69).
THEOREM FiltersPass == Spec => []FiltersAreComplete
  <1>1. Init => Passed /\ NlSeen
    <2> SUFFICES ASSUME Init PROVE Passed /\ NlSeen
      OBVIOUS
    <2>1. Base /\ out = <<>> /\ arg = 1 /\ pc = "main"
      BY InitBase DEF Init
    <2>2. Seen = <<>>
      BY <2>1, ReadNext DEF Seen
    <2> QED BY <2>1, <2>2, AgreesNone DEF Passed, NlSeen
  <1>2. Base /\ Passed /\ NlSeen /\ [Next]_vars => (Passed /\ NlSeen)'
    BY NextSteps, StepsPassed, StepsNl
  <1> QED BY <1>1, <1>2, FiltersDone, AllBase, PTL DEF Spec

-----------------------------------------------------------------------------
(* grep *)

\* Letters are bytes and no white space.
LEMMA Letter ==
    /\ Letters \subseteq Octet
    /\ \A c \in Letters : c \notin Space /\ c # Newline
    /\ Newline \in Space /\ Newline \in Octet
  <1>1. \A c \in Letters : c \in Nat /\ c >= 97 /\ c <= 122
    BY DEF Letters
  <1>2. Space \subseteq {9, 32, 10, 11, 12, 13}
    BY DEF Space, Blank
  <1>3. Newline \in Space /\ Newline = 10
    BY DEF Space, Newline
  <1> QED BY <1>1, <1>2, <1>3, Octets

\* A line that begins with p is no shorter and has the bytes of p.
LEMMA Prefix ==
    ASSUME NEW p \in Text, NEW s \in Text
    PROVE  IsPrefix(p, s) <=> Len(p) <= Len(s) /\ \A k \in 1..Len(p) : p[k] = s[k]
  <1>1. p \in Seq(Octet) /\ s \in Seq(Octet) /\ Len(p) \in Nat /\ Len(s) \in Nat
    BY DEF Text
  <1>2. ASSUME Len(p) <= Len(s)
        PROVE  Upto(p, Len(p)) = Upto(s, Len(p)) <=> \A k \in 1..Len(p) : p[k] = s[k]
    <2> DEFINE n == Len(p)
    <2>1. n \in 0..Len(p) /\ n \in 0..Len(s)
      BY <1>1, <1>2
    <2> HIDE DEF n
    <2> DEFINE v == Upto(p, n)
    <2> DEFINE w == Upto(s, n)
    <2>2. v \in Seq(Octet) /\ Len(v) = n /\ \A m \in 1..n : v[m] = p[m]
      BY <1>1, <2>1, UptoAll
    <2>3. w \in Seq(Octet) /\ Len(w) = n /\ \A m \in 1..n : w[m] = s[m]
      BY <1>1, <2>1, UptoAll
    <2> HIDE DEF v, w
    <2>4. v = w <=> \A m \in 1..n : v[m] = w[m]
      BY <2>2, <2>3
    <2>5. v = w <=> \A m \in 1..n : p[m] = s[m]
      BY <2>2, <2>3, <2>4
    <2> QED BY <2>5 DEF v, w, n
  <1>3. IsPrefix(p, s) <=> Len(p) <= Len(s) /\ Upto(p, Len(p)) = Upto(s, Len(p))
    BY DEF IsPrefix, Upto
  <1> QED BY <1>2, <1>3

\* A line that begins with the pattern matches.
LEMMA MatchesPrefix ==
    ASSUME NEW p \in Text, p # <<>>, NEW s \in Text, IsPrefix(p, s)
    PROVE  Matches(s, p)
  <1>1. /\ p \in Seq(Octet) /\ s \in Seq(Octet) /\ Len(p) \in Nat /\ Len(s) \in Nat
        /\ Len(p) > 0 /\ Len(p) <= Len(s) /\ \A k \in 1..Len(p) : p[k] = s[k]
    BY Prefix DEF Text
  <1> DEFINE v(k) == MatchOf(p, Upto(s, k))
  <1> DEFINE M == {k \in Nat : v(k).j = (IF k < Len(p) THEN k ELSE Len(p)) /\ (k > 0 => v(k).match)}
  <1>2. /\ MatchOf(p, <<>>) = [j |-> 0, match |-> FALSE]
        /\ \A x \in Seq(Octet), c \in Octet :
              MatchOf(p, Append(x, c)) = MatchStep(p, MatchOf(p, x), c)
    BY MatchLaws
  <1>3. Upto(s, 0) = <<>> /\ Upto(s, Len(s)) = s /\ \A k \in 0..Len(s) : Upto(s, k) \in Seq(Octet)
    BY <1>1, UptoAll
  <1>4. 0 \in M
    BY <1>1, <1>2, <1>3
  <1>5. ASSUME NEW k \in 0..(Len(s) - 1), k \in M PROVE k + 1 \in M
    <2>1. k \in Nat /\ k + 1 \in 1..Len(s) /\ k \in 0..Len(s) /\ (k + 1) - 1 = k
      BY <1>1
    <2>2. v(k + 1) = MatchStep(p, v(k), s[k + 1])
      <3>1. Upto(s, k + 1) = Append(Upto(s, k), s[k + 1]) /\ s[k + 1] \in Octet
        BY <1>1, <2>1, UptoNext
      <3> QED BY <1>2, <1>3, <2>1, <3>1
    <2>3. v(k).j = (IF k < Len(p) THEN k ELSE Len(p)) /\ (k > 0 => v(k).match)
      BY <1>5
    <2> HIDE DEF v
    <2>4. CASE k < Len(p)
      <3>1. v(k).j = k /\ p[k + 1] = s[k + 1] /\ ~(k > 0 /\ k >= Len(p))
        BY <1>1, <2>1, <2>3, <2>4
      <3>2. v(k + 1) = [j |-> k + 1, match |-> TRUE]
        BY <2>2, <3>1 DEF MatchStep
      <3>3. k + 1 = (IF k + 1 < Len(p) THEN k + 1 ELSE Len(p))
        BY <1>1, <2>1, <2>4
      <3> QED BY <2>1, <3>2, <3>3
    <2>5. CASE ~(k < Len(p))
      <3>1. v(k).j = Len(p) /\ k > 0 /\ v(k).j > 0 /\ v(k).j >= Len(p)
        BY <1>1, <2>1, <2>3, <2>5
      <3>2. v(k + 1) = v(k)
        BY <2>2, <3>1 DEF MatchStep
      <3>3. ~(k + 1 < Len(p))
        BY <1>1, <2>1, <2>5
      <3> QED BY <2>1, <2>3, <3>1, <3>2, <3>3
    <2> QED BY <2>4, <2>5
  <1>6. Len(s) \in M
    <2>1. M \in SUBSET Nat
      OBVIOUS
    <2> HIDE DEF M
    <2>2. 0..Len(s) \subseteq M
      BY <1>1, <1>4, <1>5, <2>1, InductionTo
    <2> QED BY <1>1, <2>2
  <1>7. v(Len(s)).match
    <2> HIDE DEF v
    <2> QED BY <1>1, <1>6
  <1>8. v(Len(s)) = MatchOf(p, s)
    BY <1>3
  <1> QED BY <1>1, <1>7, <1>8, MatchIsFold

\* A pattern of one byte is found where it is.
LEMMA MatchesByte ==
    ASSUME NEW p \in Text, Len(p) = 1, NEW s \in Text
    PROVE  Matches(s, p) <=> Count(s, {p[1]}) > 0
  <1> DEFINE b == p[1]
  <1> DEFINE P == {x \in Seq(Octet) :
                     IF Count(x, {b}) > 0 THEN MatchOf(p, x).j = 1 /\ MatchOf(p, x).match
                     ELSE MatchOf(p, x).j = 0 /\ ~MatchOf(p, x).match}
  <1>1. /\ MatchOf(p, <<>>) = [j |-> 0, match |-> FALSE]
        /\ \A x \in Seq(Octet), c \in Octet :
              MatchOf(p, Append(x, c)) = MatchStep(p, MatchOf(p, x), c)
    BY MatchLaws
  <1>2. p # <<>> /\ p[1] = b
    BY DEF Text
  <1> HIDE DEF b
  <1>3. <<>> \in P
    <2>1. Count(<<>>, {b}) = 0 /\ <<>> \in Seq(Octet)
      BY CountEmpty
    <2> QED BY <1>1, <2>1
  <1>4. ASSUME NEW x \in Seq(Octet), NEW c \in Octet, x \in P PROVE Append(x, c) \in P
    <2>1. Append(x, c) \in Seq(Octet)
      OBVIOUS
    <2>2. /\ Count(x, {b}) \in Nat
          /\ Count(Append(x, c), {b}) = Count(x, {b}) + (IF c \in {b} THEN 1 ELSE 0)
      BY CountNext
    <2> DEFINE m == MatchOf(p, x)
    <2> DEFINE n == MatchOf(p, Append(x, c))
    <2>3. n = MatchStep(p, m, c)
      BY <1>1
    <2>4. IF Count(x, {b}) > 0 THEN m.j = 1 /\ m.match ELSE m.j = 0 /\ ~m.match
      BY <1>4
    <2> HIDE DEF m, n
    <2>5. CASE Count(x, {b}) > 0
      <3>1. n = m /\ Count(Append(x, c), {b}) > 0
        BY <2>2, <2>3, <2>4, <2>5 DEF MatchStep
      <3> QED BY <2>1, <2>4, <2>5, <3>1 DEF n
    <2>6. CASE ~(Count(x, {b}) > 0) /\ c = b
      <3>1. m.j = 0 /\ Count(Append(x, c), {b}) > 0
        BY <2>2, <2>4, <2>6
      <3>2. n = [j |-> 1, match |-> TRUE]
        BY <1>2, <2>3, <2>6, <3>1 DEF MatchStep
      <3>3. n.j = 1 /\ n.match
        BY <3>2
      <3> QED BY <2>1, <3>1, <3>3 DEF n
    <2>7. CASE ~(Count(x, {b}) > 0) /\ c # b
      <3>1. m.j = 0 /\ ~(Count(Append(x, c), {b}) > 0)
        BY <2>2, <2>4, <2>7
      <3>2. n = [j |-> 0, match |-> FALSE]
        BY <1>2, <2>3, <2>7, <3>1 DEF MatchStep
      <3>3. n.j = 0 /\ ~n.match
        BY <3>2
      <3> QED BY <2>1, <3>1, <3>3 DEF n
    <2> QED BY <2>5, <2>6, <2>7
  <1> HIDE DEF P
  <1>5. s \in P
    <2>1. Seq(Octet) \subseteq P
      BY <1>3, <1>4, OneMore
    <2> QED BY <2>1 DEF Text
  <1>6. Matches(s, p) = MatchOf(p, s).match
    BY MatchIsFold DEF Text
  <1> QED BY <1>5, <1>6 DEF P, b

\* The empty line does not match.
LEMMA MatchesNone ==
    ASSUME NEW p
    PROVE  ~Matches(<<>>, p)
  <1>1. <<>> \in Seq(Octet)
    OBVIOUS
  <1>2. Matches(<<>>, p) = MatchOf(p, <<>>).match
    BY <1>1, MatchIsFold
  <1>3. MatchOf(p, <<>>) = [j |-> 0, match |-> FALSE]
    BY MatchLaws
  <1> QED BY <1>2, <1>3

-----------------------------------------------------------------------------
(* What has a mark on paper *)

\* The marks of a text with one byte more.
LEMMA InkNext ==
    /\ Ink(<<>>) = <<>>
    /\ \A s \in Text : Ink(s) \in Text
    /\ \A s \in Text, c \in Octet :
          Ink(Append(s, c)) = IF c \in Space THEN Ink(s) ELSE Append(Ink(s), c)
  <1>1. <<>> \in Seq(Octet) /\ \A s \in Seq(Octet), c \in Octet : Append(s, c) \in Seq(Octet)
    OBVIOUS
  <1>2. \A s \in Seq(Octet) : Ink(s) = InkOf(s)
    BY InkIsFold
  <1>3. Ink(<<>>) = <<>>
    BY <1>1, <1>2, InkLaws
  <1>4. \A s \in Text : Ink(s) \in Text
    BY <1>2, InkLaws DEF Text
  <1>5. \A s \in Text, c \in Octet :
          Ink(Append(s, c)) = IF c \in Space THEN Ink(s) ELSE Append(Ink(s), c)
    BY <1>1, <1>2, InkLaws DEF Text, InkStep
  <1> QED BY <1>3, <1>4, <1>5

\* The marks of two texts in one are those of both.
LEMMA InkBoth ==
    ASSUME NEW s \in Text, NEW u \in Text
    PROVE  Ink(s \o u) = Ink(s) \o Ink(u)
  <1> DEFINE P == {x \in Seq(Octet) : Ink(s \o x) = Ink(s) \o Ink(x)}
  <1>1. s \in Seq(Octet) /\ u \in Seq(Octet) /\ Ink(s) \in Seq(Octet)
    BY InkNext DEF Text
  <1>2. <<>> \in P
    <2>1. s \o <<>> = s /\ Ink(s) \o <<>> = Ink(s) /\ <<>> \in Seq(Octet)
      BY <1>1
    <2> QED BY <2>1, InkNext
  <1>3. ASSUME NEW x \in Seq(Octet), NEW c \in Octet, x \in P PROVE Append(x, c) \in P
    <2>1. s \o Append(x, c) = Append(s \o x, c) /\ s \o x \in Seq(Octet) /\ Append(x, c) \in Seq(Octet)
      BY <1>1
    <2>2. /\ Ink(Append(s \o x, c)) = IF c \in Space THEN Ink(s \o x) ELSE Append(Ink(s \o x), c)
          /\ Ink(Append(x, c)) = IF c \in Space THEN Ink(x) ELSE Append(Ink(x), c)
      BY <2>1, InkNext DEF Text
    <2>3. Ink(s \o x) = Ink(s) \o Ink(x) /\ Ink(x) \in Seq(Octet)
      BY <1>3, InkNext DEF Text
    <2>4. Ink(s) \o Append(Ink(x), c) = Append(Ink(s) \o Ink(x), c)
      <3> DEFINE v == Ink(s)
      <3> DEFINE w == Ink(x)
      <3>1. v \in Seq(Octet) /\ w \in Seq(Octet)
        BY <1>1, <2>3
      <3> HIDE DEF v, w
      <3>2. v \o Append(w, c) = Append(v \o w, c)
        BY <3>1
      <3> QED BY <3>2 DEF v, w
    <2>5. Ink(s \o Append(x, c)) = Ink(s) \o Ink(Append(x, c))
      BY <2>1, <2>2, <2>3, <2>4
    <2> QED BY <2>1, <2>5
  <1> HIDE DEF P
  <1>4. Seq(Octet) \subseteq P
    BY <1>2, <1>3, OneMore
  <1> QED BY <1>1, <1>4 DEF P

\* A letter is among the marks as often as in the text.
LEMMA InkCount ==
    ASSUME NEW s \in Text, NEW b \in Octet, b \notin Space
    PROVE  Count(Ink(s), {b}) = Count(s, {b})
  <1> DEFINE P == {x \in Seq(Octet) : Count(Ink(x), {b}) = Count(x, {b})}
  <1>1. <<>> \in P
    <2>1. <<>> \in Seq(Octet)
      OBVIOUS
    <2> QED BY <2>1, InkNext
  <1>2. ASSUME NEW x \in Seq(Octet), NEW c \in Octet, x \in P PROVE Append(x, c) \in P
    <2>1. Append(x, c) \in Seq(Octet)
      OBVIOUS
    <2>2. Ink(Append(x, c)) = (IF c \in Space THEN Ink(x) ELSE Append(Ink(x), c)) /\ Ink(x) \in Seq(Octet)
      BY InkNext DEF Text
    <2>3. /\ Count(x, {b}) \in Nat
          /\ Count(Append(x, c), {b}) = Count(x, {b}) + (IF c \in {b} THEN 1 ELSE 0)
      BY CountNext
    <2>4. Count(Append(Ink(x), c), {b}) = Count(Ink(x), {b}) + (IF c \in {b} THEN 1 ELSE 0)
      BY <2>2, CountNext
    <2>5. Count(Ink(x), {b}) = Count(x, {b})
      BY <1>2
    <2>6. Count(Ink(Append(x, c)), {b}) = Count(Append(x, c), {b})
      BY <2>2, <2>3, <2>4, <2>5
    <2> QED BY <2>1, <2>6
  <1> HIDE DEF P
  <1>3. s \in P
    <2>1. Seq(Octet) \subseteq P
      BY <1>1, <1>2, OneMore
    <2> QED BY <2>1 DEF Text
  <1> QED BY <1>3 DEF P

\* What grep found, got, is enough for the lines it should have found, has.
Enough(p, has, got) ==
    /\ \A n \in DOMAIN has :
          IsPrefix(p, has[n]) => \E m \in DOMAIN got : Ink(got[m]) = Ink(has[n])
    /\ Len(p) = 1 => Ink(FlattenSeq(got)) = Ink(FlattenSeq(has))

Pattern(p) == p \in Seq(Letters) /\ p # <<>>

\* A pattern of letters is a text that begins with a mark.
LEMMA Patterns ==
    ASSUME NEW p, Pattern(p)
    PROVE  p \in Text /\ Len(p) \in Nat /\ Len(p) > 0 /\ p[1] \in Octet /\ p[1] \notin Space
  <1>1. p \in Seq(Letters) /\ p # <<>>
    BY DEF Pattern
  <1> DEFINE S == Letters
  <1>2. p \in Seq(S) /\ Len(p) \in Nat /\ Len(p) > 0
    <2> HIDE DEF S
    <2>1. p \in Seq(S)
      BY <1>1 DEF S
    <2> QED BY <1>1, <2>1
  <1>3. p[1] \in S /\ p \in Seq(Octet)
    <2>1. S \subseteq Octet
      BY Letter
    <2> HIDE DEF S
    <2> QED BY <1>2, <2>1
  <1> QED BY <1>2, <1>3, Letter DEF Text

\* The marks of the lines with one line more.
LEMMA InkFlat ==
    ASSUME NEW ls \in Seq(Text), NEW l \in Text
    PROVE  Ink(FlattenSeq(Append(ls, l))) = Ink(FlattenSeq(ls)) \o Ink(l)
  <1>1. Flat(Octet)
    BY FlatLaws
  <1>2. FlattenSeq(Append(ls, l)) = FlattenSeq(ls) \o l /\ FlattenSeq(ls) \in Text
    BY <1>1 DEF Flat, Text
  <1> QED BY <1>2, InkBoth

\* Enough for some lines, and one line more on both sides or on neither.
LEMMA EnoughBoth ==
    ASSUME NEW p, Pattern(p), NEW has \in Seq(Text), NEW got \in Seq(Text), Enough(p, has, got),
           NEW l \in Text, NEW s \in Text, Ink(l) = Ink(s), IsPrefix(p, l) => IsPrefix(p, s)
    PROVE  Enough(p, HavingStep(p[1], has, l), GrepStep(p, got, s))
  <1> DEFINE b == p[1]
  <1> DEFINE more == HavingStep(b, has, l)
  <1> DEFINE found == GrepStep(p, got, s)
  <1>1. p \in Text /\ Len(p) \in Nat /\ b \in Octet /\ b \notin Space /\ p # <<>>
    BY Patterns DEF Pattern
  <1>2. /\ Append(has, l) \in Seq(Text) /\ Append(got, s) \in Seq(Text)
        /\ Len(has) \in Nat /\ Len(got) \in Nat
        /\ DOMAIN has = 1..Len(has) /\ DOMAIN got = 1..Len(got)
        /\ DOMAIN Append(has, l) = 1..(Len(has) + 1) /\ DOMAIN Append(got, s) = 1..(Len(got) + 1)
        /\ Append(has, l)[Len(has) + 1] = l /\ \A n \in 1..Len(has) : Append(has, l)[n] = has[n]
        /\ Append(got, s)[Len(got) + 1] = s /\ \A n \in 1..Len(got) : Append(got, s)[n] = got[n]
    OBVIOUS
  <1>3. more = (IF Count(l, {b}) > 0 THEN Append(has, l) ELSE has)
    BY DEF HavingStep
  <1>4. found = (IF Matches(s, p) THEN Append(got, s) ELSE got)
    BY DEF GrepStep
  <1> HIDE DEF b, more, found
  <1>5. ASSUME Len(p) = 1 PROVE Ink(FlattenSeq(found)) = Ink(FlattenSeq(more))
    <2>1. Count(l, {b}) = Count(s, {b})
      BY <1>1, InkCount
    <2>2. Matches(s, p) <=> Count(s, {b}) > 0
      BY <1>1, <1>5, MatchesByte DEF b
    <2>3. Ink(FlattenSeq(got)) = Ink(FlattenSeq(has))
      BY <1>5 DEF Enough
    <2>4. Ink(FlattenSeq(Append(got, s))) = Ink(FlattenSeq(Append(has, l)))
      BY <2>3, InkFlat
    <2> QED BY <1>3, <1>4, <2>1, <2>2, <2>3, <2>4
  <1>6. \A m \in DOMAIN got : m \in DOMAIN found /\ found[m] = got[m]
    BY <1>2, <1>4
  <1>7. ASSUME NEW n \in DOMAIN more, IsPrefix(p, more[n])
        PROVE  \E m \in DOMAIN found : Ink(found[m]) = Ink(more[n])
    <2>1. CASE n \in DOMAIN has
      <3>1. more[n] = has[n]
        BY <1>2, <1>3, <2>1
      <3>2. PICK m \in DOMAIN got : Ink(got[m]) = Ink(has[n])
        BY <1>7, <2>1, <3>1 DEF Enough
      <3> QED BY <1>6, <3>1, <3>2
    <2>2. CASE n \notin DOMAIN has
      <3>1. n = Len(has) + 1 /\ more[n] = l
        BY <1>2, <1>3, <1>7, <2>2
      <3>2. Matches(s, p)
        BY <1>1, <1>7, <3>1, MatchesPrefix
      <3>3. found[Len(got) + 1] = s /\ Len(got) + 1 \in DOMAIN found
        BY <1>2, <1>4, <3>2
      <3> QED BY <3>1, <3>3
    <2> QED BY <2>1, <2>2
  <1> QED BY <1>5, <1>7 DEF Enough, more, found, b

\* A line without a mark has no letter.
LEMMA NoInk ==
    ASSUME NEW p, Pattern(p), NEW has, NEW l \in Text, Ink(l) = <<>>
    PROVE  HavingStep(p[1], has, l) = has
  <1>1. p[1] \in Octet /\ p[1] \notin Space
    BY Patterns
  <1>2. Count(l, {p[1]}) = Count(<<>>, {p[1]})
    BY <1>1, InkCount
  <1>3. Count(l, {p[1]}) = 0
    BY <1>2, CountEmpty
  <1> QED BY <1>3 DEF HavingStep

\* How getline and fscanf go through a text side by side.
Aside(p, L, S) ==
    /\ L \in Reading /\ S \in Scanning
    /\ Ink(L.line) = Ink(S.line)
    /\ S.skip => S.line = <<>>
    /\ L.line = <<>> \/ L.line[1] \notin Space => S.line = L.line
    /\ Enough(p, HavingOf(p[1], L.lines), GrepOf(p, S.lines))

\* A line ends on both sides.
LEMMA LineDone ==
    ASSUME NEW p, Pattern(p), NEW L, NEW S, Aside(p, L, S), NEW l \in Text,
           l = L.line \/ l = Append(L.line, Newline)
    PROVE  /\ Ink(l) = Ink(S.line)
           /\ IsPrefix(p, l) => IsPrefix(p, S.line)
           /\ Enough(p, HavingOf(p[1], Append(L.lines, l)), GrepOf(p, Append(S.lines, S.line)))
  <1>1. /\ L.lines \in Seq(Text) /\ L.line \in Text /\ S.lines \in Seq(Text) /\ S.line \in Text
        /\ Ink(L.line) = Ink(S.line)
        /\ L.line = <<>> \/ L.line[1] \notin Space => S.line = L.line
        /\ Enough(p, HavingOf(p[1], L.lines), GrepOf(p, S.lines))
    BY DEF Aside, Reading, Scanning
  <1>2. Ink(l) = Ink(S.line)
    BY <1>1, Letter, InkNext
  <1>3. p \in Text /\ Len(p) \in Nat /\ Len(p) > 0 /\ p[1] \notin Space /\ p # <<>>
    BY Patterns DEF Pattern
  <1>4. ASSUME IsPrefix(p, l) PROVE IsPrefix(p, S.line)
    <2> DEFINE x == L.line
    <2>1. Len(p) <= Len(l) /\ \A k \in 1..Len(p) : p[k] = l[k]
      BY <1>3, <1>4, Prefix
    <2>2. x \in Seq(Octet) /\ Len(x) \in Nat
      BY <1>1 DEF Text
    <2>3. Len(p) <= Len(x) /\ \A k \in 1..Len(p) : p[k] = x[k]
      <3>1. CASE l = x
        BY <2>1, <3>1
      <3>2. CASE l = Append(x, Newline)
        <4> HIDE DEF x
        <4>1. Len(l) = Len(x) + 1 /\ l[Len(x) + 1] = Newline /\ \A k \in 1..Len(x) : l[k] = x[k]
          BY <2>2, <3>2, Letter
        <4>2. \A k \in 1..Len(p) : p[k] # Newline
          <5>1. \A k \in 1..Len(p) : p[k] \in Letters
            <6> DEFINE Q == Letters
            <6>1. p \in Seq(Q)
              BY DEF Pattern
            <6> HIDE DEF Q
            <6>2. \A k \in 1..Len(p) : p[k] \in Q
              BY <6>1
            <6> QED BY <6>2 DEF Q
          <5> QED BY <5>1, Letter
        <4>3. Len(p) # Len(x) + 1
          <5> SUFFICES ASSUME Len(p) = Len(x) + 1 PROVE FALSE
            OBVIOUS
          <5>1. Len(p) \in 1..Len(p)
            BY <1>3
          <5> QED BY <2>1, <4>1, <4>2, <5>1
        <4>4. Len(p) <= Len(x)
          BY <1>3, <2>1, <2>2, <4>1, <4>3
        <4>5. \A k \in 1..Len(p) : k \in 1..Len(x)
          BY <1>3, <2>2, <4>4
        <4> QED BY <2>1, <4>1, <4>4, <4>5
      <3> QED BY <3>1, <3>2
    <2>4. x[1] = p[1]
      BY <1>3, <2>3
    <2>5. S.line = x
      BY <1>1, <1>3, <2>4
    <2> HIDE DEF x
    <2>6. IsPrefix(p, x)
      BY <1>1, <1>3, <2>3, Prefix DEF x
    <2> QED BY <2>5, <2>6
  <1>5. /\ HavingOf(p[1], L.lines) \in Seq(Text) /\ GrepOf(p, S.lines) \in Seq(Text)
        /\ HavingOf(p[1], Append(L.lines, l)) = HavingStep(p[1], HavingOf(p[1], L.lines), l)
        /\ GrepOf(p, Append(S.lines, S.line)) = GrepStep(p, GrepOf(p, S.lines), S.line)
    BY <1>1, HavingLaws, GrepLaws
  <1>6. Enough(p, HavingStep(p[1], HavingOf(p[1], L.lines), l), GrepStep(p, GrepOf(p, S.lines), S.line))
    BY <1>1, <1>2, <1>4, <1>5, EnoughBoth
  <1> QED BY <1>2, <1>4, <1>5, <1>6

\* One byte more keeps the two readings aside.
LEMMA AsideStep ==
    ASSUME NEW p, Pattern(p), NEW L, NEW S, Aside(p, L, S), NEW c \in Octet
    PROVE  Aside(p, LinesStep(L, c), ScanStep(S, c))
  <1> DEFINE L1 == LinesStep(L, c)
  <1> DEFINE S1 == ScanStep(S, c)
  <1>1. /\ L \in Reading /\ S \in Scanning
        /\ L.lines \in Seq(Text) /\ L.line \in Text /\ S.lines \in Seq(Text) /\ S.line \in Text
        /\ Ink(L.line) = Ink(S.line)
        /\ S.skip \in BOOLEAN /\ (S.skip => S.line = <<>>)
        /\ L.line = <<>> \/ L.line[1] \notin Space => S.line = L.line
        /\ Enough(p, HavingOf(p[1], L.lines), GrepOf(p, S.lines))
    BY DEF Aside, Reading, Scanning
  <1>2. L1 \in Reading /\ S1 \in Scanning
    BY <1>1, LinesTyped, ScanTyped
  <1> DEFINE l == Append(L.line, c)
  <1>3. /\ l \in Text /\ l # <<>>
        /\ l[1] = (IF L.line = <<>> THEN c ELSE L.line[1])
        /\ Ink(l) = IF c \in Space THEN Ink(L.line) ELSE Append(Ink(L.line), c)
    <2>1. L.line \in Seq(Octet)
      BY <1>1 DEF Text
    <2> DEFINE x == L.line
    <2> HIDE DEF x
    <2>2. x \in Seq(Octet)
      BY <2>1 DEF x
    <2>3. Append(x, c) \in Seq(Octet) /\ Append(x, c) # <<>>
          /\ Append(x, c)[1] = (IF x = <<>> THEN c ELSE x[1])
      <3> DEFINE y == Append(x, c)
      <3>1. /\ y \in Seq(Octet) /\ Len(y) = Len(x) + 1 /\ Len(x) \in Nat
            /\ y[Len(x) + 1] = c /\ \A k \in 1..Len(x) : y[k] = x[k]
        BY <2>2
      <3> HIDE DEF y
      <3>2. y # <<>>
        BY <3>1
      <3>3. x = <<>> => Len(x) = 0
        OBVIOUS
      <3>4. x # <<>> => 1 \in 1..Len(x)
        BY <2>2
      <3>5. x = <<>> => y[1] = c
        <4> SUFFICES ASSUME x = <<>> PROVE y[1] = c
          OBVIOUS
        <4>1. Len(x) + 1 = 1
          BY <3>3
        <4> QED BY <3>1, <4>1, Zenon
      <3> QED BY <3>1, <3>2, <3>4, <3>5 DEF y
    <2> QED BY <1>1, <2>3, InkNext DEF Text, x
  <1>4. L1 = IF c = Newline THEN [lines |-> Append(L.lines, l), line |-> <<>>]
             ELSE [lines |-> L.lines, line |-> l]
    BY DEF LinesStep
  <1> SUFFICES Aside(p, L1, S1)
    OBVIOUS
  <1>0. S1 = IF S.skip /\ c \in Space THEN S
             ELSE IF c = Newline
             THEN [lines |-> Append(S.lines, S.line), line |-> <<>>, skip |-> TRUE]
             ELSE [lines |-> S.lines, line |-> Append(S.line, c), skip |-> FALSE]
    BY DEF ScanStep
  <1> HIDE DEF L1, S1, l
  <1>5. CASE S.skip /\ c \in Space
    <2>1. S1 = S /\ S.line = <<>>
      BY <1>0, <1>1, <1>5
    <2>2. Ink(L.line) = <<>> /\ Ink(l) = <<>>
      BY <1>1, <1>3, <1>5, <2>1, InkNext
    <2>3. CASE c = Newline
      <3>1. L1.line = <<>> /\ L1.lines = Append(L.lines, l)
        BY <1>4, <2>3
      <3>2. HavingOf(p[1], L1.lines) = HavingOf(p[1], L.lines)
        <4> DEFINE b == p[1]
        <4> HIDE DEF b
        <4>0. HavingOf(b, L1.lines) = HavingStep(b, HavingOf(b, L.lines), l)
          <5>1. \A x \in Seq(Text), y \in Text :
                   HavingOf(b, Append(x, y)) = HavingStep(b, HavingOf(b, x), y)
            BY HavingLaws
          <5>2. L.lines \in Seq(Text) /\ l \in Text
            BY <1>1, <1>3
          <5> QED BY <3>1, <5>1, <5>2
        <4>1. HavingOf(p[1], L1.lines) = HavingStep(p[1], HavingOf(p[1], L.lines), l)
          BY <4>0 DEF b
        <4> QED BY <1>3, <2>2, <4>1, NoInk
      <3> QED BY <1>1, <1>2, <2>1, <3>1, <3>2, InkNext DEF Aside
    <2>4. CASE c # Newline
      <3>1. L1.line = l /\ L1.lines = L.lines
        BY <1>4, <2>4
      <3>2. ~(l = <<>> \/ l[1] \notin Space)
        <4>1. CASE L.line = <<>>
          BY <1>3, <1>5, <4>1
        <4>2. CASE L.line # <<>>
          BY <1>1, <1>3, <2>1, <4>2
        <4> QED BY <4>1, <4>2
      <3> QED BY <1>1, <1>2, <2>1, <2>2, <3>1, <3>2, InkNext DEF Aside
    <2> QED BY <2>3, <2>4
  <1>6. CASE ~(S.skip /\ c \in Space) /\ c = Newline
    <2>1. S1 = [lines |-> Append(S.lines, S.line), line |-> <<>>, skip |-> TRUE]
      BY <1>0, <1>6
    <2>2. S1.lines = Append(S.lines, S.line) /\ S1.line = <<>>
      BY <2>1
    <2>3. L1.line = <<>> /\ L1.lines = Append(L.lines, l)
      BY <1>4, <1>6
    <2>4. Enough(p, HavingOf(p[1], Append(L.lines, l)), GrepOf(p, Append(S.lines, S.line)))
      BY <1>3, <1>6, LineDone DEF l
    <2> QED BY <1>2, <2>2, <2>3, <2>4 DEF Aside
  <1>7. CASE ~(S.skip /\ c \in Space) /\ c # Newline
    <2> DEFINE s == Append(S.line, c)
    <2>1. S1 = [lines |-> S.lines, line |-> s, skip |-> FALSE]
      BY <1>0, <1>7
    <2>2. S1.lines = S.lines /\ S1.line = s /\ ~S1.skip
      BY <2>1
    <2>3. L1.line = l /\ L1.lines = L.lines
      BY <1>4, <1>7
    <2>4. Ink(s) = IF c \in Space THEN Ink(S.line) ELSE Append(Ink(S.line), c)
      BY <1>1, InkNext
    <2>5. Ink(l) = Ink(s)
      BY <1>1, <1>3, <2>4
    <2>6. l = <<>> \/ l[1] \notin Space => s = l
      <3> SUFFICES ASSUME l[1] \notin Space PROVE s = l
        BY <1>3
      <3>1. S.line = L.line
        BY <1>1, <1>3
      <3> QED BY <3>1 DEF l
    <2> HIDE DEF s
    <2> QED BY <1>1, <1>2, <2>2, <2>3, <2>5, <2>6 DEF Aside
  <1> QED BY <1>5, <1>6, <1>7

\* And so do all of a text.
LEMMA AsideTo ==
    ASSUME NEW p, Pattern(p), NEW t \in Text
    PROVE  Aside(p, LinesOf(t), ScanOf(t))
  <1> DEFINE P == {x \in Seq(Octet) : Aside(p, LinesOf(x), ScanOf(x))}
  <1>1. <<>> \in P
    <2> DEFINE L == LinesOf(<<>>)
    <2> DEFINE S == ScanOf(<<>>)
    <2>0. <<>> \in Seq(Octet)
      OBVIOUS
    <2>1. L.lines = <<>> /\ L.line = <<>> /\ L \in Reading
      <3>1. L = [lines |-> <<>>, line |-> <<>>] /\ L \in Reading
        BY <2>0, LinesLaws
      <3> QED BY <3>1
    <2>2. S.lines = <<>> /\ S.line = <<>> /\ S \in Scanning
      <3>1. S = [lines |-> <<>>, line |-> <<>>, skip |-> FALSE] /\ S \in Scanning
        BY <2>0, ScanLaws
      <3> QED BY <3>1
    <2> HIDE DEF L, S
    <2>3. HavingOf(p[1], <<>>) = <<>> /\ GrepOf(p, <<>>) = <<>>
      BY HavingLaws, GrepLaws
    <2>4. Enough(p, <<>>, <<>>)
      BY DEF Enough
    <2>5. Aside(p, L, S)
      BY <2>1, <2>2, <2>3, <2>4 DEF Aside
    <2> QED BY <2>0, <2>5 DEF L, S
  <1>2. ASSUME NEW x \in Seq(Octet), NEW c \in Octet, x \in P PROVE Append(x, c) \in P
    <2>1. /\ LinesOf(Append(x, c)) = LinesStep(LinesOf(x), c)
          /\ ScanOf(Append(x, c)) = ScanStep(ScanOf(x), c)
          /\ Append(x, c) \in Seq(Octet)
      BY LinesLaws, ScanLaws
    <2>2. Aside(p, LinesOf(x), ScanOf(x))
      BY <1>2
    <2>3. Aside(p, LinesStep(LinesOf(x), c), ScanStep(ScanOf(x), c))
      BY <2>2, AsideStep
    <2> QED BY <2>1, <2>3
  <1> HIDE DEF P
  <1>3. Seq(Octet) \subseteq P
    BY <1>1, <1>2, OneMore
  <1> QED BY <1>3 DEF P, Text

\* What grep finds in a text is enough for its lines.
LEMMA GrepEnough ==
    ASSUME NEW p, Pattern(p), NEW t \in Text
    PROVE  Enough(p, Having(Lines(t), p[1]), Grep(t, p)) /\ Grep(t, p) \in Seq(Text)
  <1> DEFINE L == LinesOf(t)
  <1> DEFINE S == ScanOf(t)
  <1>1. Aside(p, L, S)
    BY AsideTo
  <1>2. Lines(t) = (IF L.line = <<>> THEN L.lines ELSE Append(L.lines, L.line))
    BY LinesIsFold DEF Text
  <1>3. Scanned(t) = (IF S.skip THEN S.lines ELSE Append(S.lines, S.line))
    BY ScanIsFold DEF Text
  <1> HIDE DEF L, S
  <1>4. /\ L.lines \in Seq(Text) /\ L.line \in Text /\ S.lines \in Seq(Text) /\ S.line \in Text
        /\ Ink(L.line) = Ink(S.line)
        /\ S.skip \in BOOLEAN /\ (S.skip => S.line = <<>>)
        /\ L.line = <<>> \/ L.line[1] \notin Space => S.line = L.line
        /\ Enough(p, HavingOf(p[1], L.lines), GrepOf(p, S.lines))
    BY <1>1 DEF Aside, Reading, Scanning
  <1>5. /\ Append(L.lines, L.line) \in Seq(Text) /\ Append(S.lines, S.line) \in Seq(Text)
        /\ HavingOf(p[1], Append(L.lines, L.line)) = HavingStep(p[1], HavingOf(p[1], L.lines), L.line)
        /\ GrepOf(p, Append(S.lines, S.line)) = GrepStep(p, GrepOf(p, S.lines), S.line)
    BY <1>4, Texts, HavingLaws, GrepLaws
  <1>6. Having(Lines(t), p[1]) = HavingOf(p[1], Lines(t))
    BY LinesAll, HavingIsFold
  <1>7. Scanned(t) \in Seq(Text)
    BY <1>3, <1>4, <1>5
  <1>8. Grep(t, p) = GrepOf(p, Scanned(t)) /\ GrepOf(p, Scanned(t)) \in Seq(Text)
    <2>1. Grep(t, p) = Where(Scanned(t), LAMBDA l : Matches(l, p))
      BY DEF Grep
    <2> DEFINE ls == Scanned(t)
    <2>2. ls \in Seq(Text)
      BY <1>7
    <2> HIDE DEF ls
    <2>3. Where(ls, LAMBDA l : Matches(l, p)) = GrepOf(p, ls) /\ GrepOf(p, ls) \in Seq(Text)
      BY <2>2, GrepIsFold, GrepLaws
    <2> QED BY <2>1, <2>3 DEF ls
  <1>9. Enough(p, HavingOf(p[1], Lines(t)), GrepOf(p, Scanned(t)))
    <2>1. CASE S.skip
      <3>1. Scanned(t) = S.lines /\ Ink(L.line) = <<>>
        BY <1>3, <1>4, <2>1, InkNext
      <3>2. HavingOf(p[1], Lines(t)) = HavingOf(p[1], L.lines)
        BY <1>2, <1>4, <1>5, <3>1, NoInk
      <3> QED BY <1>4, <3>1, <3>2
    <2>2. CASE ~S.skip /\ L.line = <<>>
      <3>1. S.line = <<>> /\ Scanned(t) = Append(S.lines, S.line) /\ Lines(t) = L.lines
        BY <1>2, <1>3, <1>4, <2>2
      <3>2. GrepOf(p, Scanned(t)) = GrepOf(p, S.lines)
        BY <1>5, <3>1, MatchesNone DEF GrepStep
      <3> QED BY <1>4, <3>1, <3>2
    <2>3. CASE ~S.skip /\ L.line # <<>>
      <3>1. Scanned(t) = Append(S.lines, S.line) /\ Lines(t) = Append(L.lines, L.line)
        BY <1>2, <1>3, <2>3
      <3>2. Enough(p, HavingOf(p[1], Append(L.lines, L.line)), GrepOf(p, Append(S.lines, S.line)))
        BY <1>1, <1>4, LineDone
      <3> QED BY <3>1, <3>2
    <2> QED BY <2>1, <2>2, <2>3
  <1> QED BY <1>6, <1>8, <1>9

\* What grep has printed of its only operand, if it is not empty.
GrepSeen ==
    tool = "grep" /\ ~Helped /\ Len(ops) = 1 /\ Pattern(par) /\ pc \in {"main", "ok"} =>
        /\ arg = 1 => out = <<>>
        /\ arg = 2 /\ job.text[ops[1]] # <<>> => out = Grep(job.text[ops[1]], par)

\* The output of grep is what it finds in its operand.
LEMMA StepsGrep ==
    ASSUME Base, Steps, GrepSeen
    PROVE  GrepSeen'
  <1>1. job' = job
    BY StepsBase
  <1>2. /\ tool' = tool /\ ops' = ops /\ par' = par /\ (Helped' <=> Helped)
    BY <1>1, SameJob
  <1>3. Pattern(par)' <=> Pattern(par)
    BY <1>2
  <1> SUFFICES ASSUME tool = "grep", ~Helped, Len(ops) = 1, Pattern(par) PROVE GrepSeen'
    BY <1>2, <1>3 DEF GrepSeen
  <1>4. CASE UNCHANGED vars
    BY <1>1, <1>2, <1>4 DEF GrepSeen, vars
  <1>5. CASE Breaks
    BY <1>5 DEF Breaks, GrepSeen, Bad
  <1>6. CASE Helps
    BY <1>6 DEF Helps
  <1>7. CASE Compares
    BY <1>7 DEF Compares
  <1>8. CASE TakesInput
    BY <1>8 DEF TakesInput
  <1> DEFINE t == job.text[ops[1]]
  <1>9. CASE Ends
    <2>1. arg = 2 /\ arg' = 2 /\ pc = "main" /\ Opens(ops[1]) /\ out' = out \o <<>>
      BY <1>9 DEF Ends, Base
    <2>2. t \in Text
      BY <2>1, InHandTyped
    <2>3. Grep(t, par) \o <<>> = Grep(t, par)
      <3>1. Grep(t, par) \in Seq(Text)
        BY <2>2, GrepEnough
      <3> QED BY <3>1
    <2>4. t # <<>> => out' = Grep(t, par)
      BY <2>1, <2>3 DEF GrepSeen
    <2> QED BY <1>1, <1>2, <2>1, <2>4 DEF GrepSeen
  <1>10. ASSUME NEW items, Handles(items) PROVE GrepSeen'
    <2>1. /\ arg = 1 /\ arg' = 2 /\ pc = "main" /\ out' = out \o items /\ Opens(ops[1])
          /\ (T # <<>> => items = Grep(T, par))
      BY <1>10 DEF Handles, Base, Made
    <2>2. T = t /\ t \in Text
      BY <2>1, InHandTyped DEF T
    <2>3. out = <<>>
      BY <2>1 DEF GrepSeen
    <2>4. <<>> \o Grep(t, par) = Grep(t, par)
      <3>1. Grep(t, par) \in Seq(Text)
        BY <2>2, GrepEnough
      <3> QED BY <3>1
    <2>5. t # <<>> => out' = Grep(t, par)
      BY <2>1, <2>2, <2>3, <2>4
    <2> QED BY <1>1, <1>2, <2>1, <2>5 DEF GrepSeen
  <1> QED BY <1>4, <1>5, <1>6, <1>7, <1>8, <1>9, <1>10 DEF Steps

\* grep of letters prints every line that begins with them, and of one letter
\* the lines that have it and no other, white space aside (grep.c:57-73).
THEOREM GrepFound == Spec => []GrepFinds
  <1>1. Init => GrepSeen
    BY DEF Init, GrepSeen
  <1>2. Base /\ GrepSeen /\ [Next]_vars => GrepSeen'
    BY NextSteps, StepsGrep
  <1>3. Base /\ GrepSeen => GrepFinds
    <2> SUFFICES ASSUME Base, GrepSeen, Done("grep"), Input # <<>>, Len(ops) = 1,
                        par \in Seq(Letters) \ {<<>>}
                 PROVE  Enough(par, Having(Lines(Input), par[1]), out)
      BY DEF GrepFinds, Enough
    <2>1. pc = "ok" /\ tool = "grep" /\ ~Helped /\ arg = 2 /\ Pattern(par)
      BY DEF Done, Base, Pattern
    <2>2. Opens(ops[1])
      BY <2>1 DEF Base
    <2>3. Input = job.text[ops[1]] /\ Input \in Text
      BY <2>2, InputOfOne
    <2>4. out = Grep(Input, par)
      BY <2>1, <2>3 DEF GrepSeen
    <2> QED BY <2>1, <2>3, <2>4, GrepEnough
  <1> QED BY <1>1, <1>2, <1>3, AllBase, PTL DEF Spec

-----------------------------------------------------------------------------
(* The line reader *)

\* While a line is read there is room for one character more, and the buffer is
\* never smaller than at first.
RoomForOne ==
    LAt("read") => i < bufsiz /\ BUFF_SZ <= bufsiz

\* While a line with few words is split, the first entries are all in use or
\* free, and there is one left for the NULL.
RoomForNull ==
    LAt("split") /\ most < TOKENS =>
        /\ ntok <= words /\ words <= most
        /\ buffsize = TOKENS /\ room = TOKENS

LInv == LTypeOK /\ LineFits /\ TokensFit /\ RoomForOne /\ RoomForNull

LEMMA LInitInv == LInit => LInv
  <1> SUFFICES ASSUME LInit PROVE LInv
    OBVIOUS
  <1>1. LTypeOK
    BY DEF LInit, LTypeOK
  <1>2. LineFits /\ TokensFit
    BY DEF LInit, LineFits, TokensFit
  <1>3. RoomForOne /\ RoomForNull
    BY DEF LInit, RoomForOne, RoomForNull, LAt
  <1> QED
    BY <1>1, <1>2, <1>3 DEF LInv

\* The entries realloc allocates are a natural number.
LEMMA Quotient == \A m \in Nat : m \div POINTER \in Nat
  BY SizesAssumption

\* A store into a buffer that has room leaves the wild stores as they are.
LEMMA StoreFits ==
    ASSUME NEW b, NEW n \in Nat, NEW size \in Nat, Stores(b, n, size), n < size
    PROVE  wild' = wild
  BY DEF Stores

LEMMA LStepInv == LInv /\ [LNext]_lvars => LInv'
  <1> SUFFICES ASSUME LInv, [LNext]_lvars PROVE LInv'
    OBVIOUS
  <1> USE SizesAssumption DEF LInv, LTypeOK, LineFits, TokensFit, RoomForOne, RoomForNull, LAt
  <1>u. CASE UNCHANGED lvars
    BY <1>u DEF lvars, lineVars, tokenVars
  <1>1. CASE Allocate
    <2>1. LTypeOK' /\ LineFits' /\ TokensFit'
      BY <1>1 DEF Allocate
    <2>2. RoomForOne' /\ RoomForNull'
      BY <1>1 DEF Allocate
    <2> QED
      BY <2>1, <2>2
  <1>2. ASSUME NEW letter \in BOOLEAN, Store(letter) PROVE LInv'
    <2>1. wild' = wild
      BY <1>2 DEF Store, Stores
    <2>2. i' < bufsiz' /\ BUFF_SZ <= bufsiz'
      BY <1>2 DEF Store, Grown
    <2> QED
      BY <1>2, <2>1, <2>2 DEF Store, Grown, tokenVars
  <1>3. CASE StoreNoMemory
    <2>1. wild' = wild
      BY <1>3, StoreFits DEF StoreNoMemory
    <2> QED
      BY <1>3, <2>1 DEF StoreNoMemory, NoMemory, lineVars, tokenVars
  <1>4. CASE EndLine
    <2>1. wild' = wild
      BY <1>4, StoreFits DEF EndLine
    <2> QED
      BY <1>4, <2>1 DEF EndLine, lineVars
  <1>9. CASE EndLineNoMemory
    <2>1. wild' = wild
      BY <1>9, StoreFits DEF EndLineNoMemory
    <2> QED
      BY <1>9, <2>1 DEF EndLineNoMemory, NoMemory, lineVars, tokenVars
  <1>5. CASE Token
    <2>1. "line" \notin wild' /\ wild' \subseteq {"line", "tokens"}
      BY <1>5 DEF Token, Stores
    <2>2. "tokens" \in wild' => most >= TOKENS
      BY <1>5 DEF Token, Stores
    <2>3. room' \in Nat /\ buffsize' \in Nat
      BY <1>5, Quotient, buffsize + TOKENS \in Nat DEF Token
    <2>4. most < TOKENS => buffsize' = TOKENS /\ room' = TOKENS
      BY <1>5 DEF Token, Full
    <2> QED
      BY <1>5, <2>1, <2>2, <2>3, <2>4 DEF Token, lineVars
  <1>6. CASE TokenNoMemory
    <2>1. "line" \notin wild' /\ wild' \subseteq {"line", "tokens"}
      BY <1>6 DEF TokenNoMemory, Stores
    <2>2. "tokens" \in wild' => most >= TOKENS
      BY <1>6 DEF TokenNoMemory, Stores, NoMemory
    <2> QED
      BY <1>6, <2>1, <2>2 DEF TokenNoMemory, NoMemory, lineVars, tokenVars
  <1>7. CASE EndTokens
    <2>1. "line" \notin wild' /\ wild' \subseteq {"line", "tokens"}
      BY <1>7 DEF EndTokens, Stores
    <2>2. "tokens" \in wild' => most >= TOKENS
      BY <1>7 DEF EndTokens, Stores
    <2> QED
      BY <1>7, <2>1, <2>2 DEF EndTokens, lineVars, tokenVars
  <1>8. CASE Command
    BY <1>8 DEF Command, lineVars, tokenVars
  <1> QED
    BY <1>u, <1>1, <1>2, <1>3, <1>4, <1>5, <1>6, <1>7, <1>8, <1>9 DEF LNext

LEMMA LInvHolds == LSpec => []LInv
  BY LInitInv, LStepInv, PTL DEF LSpec

\* A line of any length fits its buffer while it is read (shell.h:27-43).
THEOREM LinesFit == LSpec => []LineFits
  <1>1. LInv => LineFits
    BY DEF LInv
  <1> QED
    BY <1>1, LInvHolds, PTL

\* The addresses of the words fit theirs as long as there are fewer than the
\* buffer's first entries (shell.h:59-72).
THEOREM FewTokensFit == LSpec => []TokensFit
  <1>1. LInv => TokensFit
    BY DEF LInv
  <1> QED
    BY <1>1, LInvHolds, PTL
=============================================================================
