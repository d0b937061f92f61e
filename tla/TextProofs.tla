------------------------------ MODULE TextProofs ------------------------------
(***************************************************************************)
(* The two texts the service hands to its stores, for all parts and all    *)
(* credentials of any length: the Redis key tells its parts, and the URL   *)
(* its credentials.  What a recursive definition computes is proved by an  *)
(* induction over the set of the naturals it is right for (SetInduction).  *)
(***************************************************************************)
EXTENDS RedisKey, ConnectionUrl, SequenceTheorems, WellFoundedInduction, TLAPS

LessThan == {pair \in Nat \X Nat : pair[1] < pair[2]}

LEMMA LessThanWellFounded == IsWellFoundedOn(LessThan, Nat)
BY NatLessThanWellFounded DEF OpToRel, LessThan

\* Induction over the naturals, with a set in place of a predicate.
LEMMA StrongInduction ==
  ASSUME NEW S, \A n \in Nat : (\A m \in 0..n - 1 : m \in S) => n \in S
  PROVE  Nat \subseteq S
<1> SUFFICES ASSUME Nat \ S # {} PROVE FALSE
  OBVIOUS
<1>1. PICK x \in Nat \ S : \A y \in Nat \ S : ~ (<<y, x>> \in LessThan)
  BY LessThanWellFounded, WFMin, Zenon
<1>2. ASSUME NEW m \in 0..x - 1 PROVE m \in S
  <2>1. m \in Nat /\ <<m, x>> \in Nat \X Nat /\ m < x BY <1>1
  <2>2. <<m, x>> \in LessThan BY <2>1 DEF LessThan
  <2> QED BY <1>1, <2>1, <2>2
<1> QED BY <1>1, <1>2

LEMMA SetInduction ==
  ASSUME NEW S, 0 \in S, \A n \in Nat : n \in S => n + 1 \in S
  PROVE  Nat \subseteq S
<1>1. ASSUME NEW n \in Nat, \A m \in 0..n - 1 : m \in S PROVE n \in S
  <2>1. CASE n = 0 BY <2>1
  <2>2. CASE n # 0
    <3>1. n - 1 \in Nat /\ n - 1 \in 0..n - 1 /\ n = (n - 1) + 1 BY <2>2
    <3> QED BY <1>1, <3>1
  <2> QED BY <2>1, <2>2
<1> QED BY <1>1, StrongInduction

Cat(s, t) == s \o t

LEMMA CatIs ==
  ASSUME NEW C
  PROVE  /\ \A s, t \in Seq(C) : Cat(s, t) \in Seq(C)
         /\ \A s, t, u \in Seq(C) : Cat(Cat(s, t), u) = Cat(s, Cat(t, u))
BY ConcatAssociative DEF Cat

LEMMA CatFour ==
  ASSUME NEW C, NEW s \in Seq(C), NEW t \in Seq(C), NEW u \in Seq(C), NEW v \in Seq(C)
  PROVE  Cat(Cat(Cat(s, t), u), v) = Cat(s, Cat(t, Cat(u, v)))
BY CatIs

-----------------------------------------------------------------------------
(* FlattenSeq *)

\* g is the local function of FlattenSeq, up to n.
Flat(g, s, n) == g = [i \in 1..n |-> IF i = 1 THEN s[i] ELSE g[i - 1] \o s[i]]

FlatOf(s, n) == CHOOSE g : Flat(g, s, n)

LEMMA FlattenDef ==
  ASSUME NEW s, Len(s) # 0
  PROVE  FlattenSeq(s) = FlatOf(s, Len(s))[Len(s)]
BY DEF FlattenSeq, Flat, FlatOf

LEMMA FlatAt ==
  ASSUME NEW g, NEW s, NEW n, Flat(g, s, n), NEW i \in 1..n
  PROVE  g[i] = IF i = 1 THEN s[i] ELSE g[i - 1] \o s[i]
<1>1. [j \in 1..n |-> IF j = 1 THEN s[j] ELSE g[j - 1] \o s[j]][i]
        = IF i = 1 THEN s[i] ELSE g[i - 1] \o s[i]
  OBVIOUS
<1> QED BY <1>1, Zenon DEF Flat

LEMMA FlatExists ==
  ASSUME NEW s, NEW n \in Nat
  PROVE  \E g : Flat(g, s, n)
<1> DEFINE S == {m \in Nat : \E g : Flat(g, s, m)}
<1>1. 0 \in S
  <2>1. Flat([i \in 1..0 |-> s[i]], s, 0) BY DEF Flat
  <2> QED BY <2>1
<1>2. ASSUME NEW m \in Nat, m \in S PROVE m + 1 \in S
  <2>1. PICK g : Flat(g, s, m) BY <1>2
  <2> DEFINE h == [i \in 1..m + 1 |->
                     IF i <= m THEN g[i] ELSE IF i = 1 THEN s[i] ELSE g[i - 1] \o s[i]]
  <2>2. ASSUME NEW i \in 1..m + 1 PROVE h[i] = IF i = 1 THEN s[i] ELSE h[i - 1] \o s[i]
    <3>1. CASE i <= m
      <4>1. i \in 1..m BY <3>1
      <4>2. g[i] = IF i = 1 THEN s[i] ELSE g[i - 1] \o s[i] BY <2>1, <4>1, FlatAt
      <4>3. h[i] = g[i] /\ (i # 1 => h[i - 1] = g[i - 1]) BY <4>1
      <4> HIDE DEF h
      <4> QED BY <4>2, <4>3
    <3>2. CASE ~(i <= m) BY <3>2
    <3> QED BY <3>1, <3>2
  <2>3. Flat(h, s, m + 1)
    <3>1. h = [i \in 1..m + 1 |-> h[i]] OBVIOUS
    <3> HIDE DEF h
    <3> QED BY <2>2, <3>1 DEF Flat
  <2> HIDE DEF h
  <2> QED BY <2>3
<1> HIDE DEF S
<1>3. n \in S BY <1>1, <1>2, SetInduction
<1> QED BY <1>3 DEF S

LEMMA FlatOfIs ==
  ASSUME NEW s, NEW n \in Nat
  PROVE  Flat(FlatOf(s, n), s, n)
BY FlatExists, Zenon DEF FlatOf

LEMMA FlatUnique ==
  ASSUME NEW g, NEW h, NEW s, NEW t, NEW n \in Nat, NEW m \in Nat, n <= m,
         Flat(g, s, n), Flat(h, t, m), \A i \in 1..n : s[i] = t[i]
  PROVE  \A i \in 1..n : g[i] = h[i]
<1> DEFINE S == {k \in Nat : k \in 1..n => g[k] = h[k]}
<1>1. 0 \in S OBVIOUS
<1>2. ASSUME NEW k \in Nat, k \in S PROVE k + 1 \in S
  <2> SUFFICES ASSUME k + 1 \in 1..n PROVE g[k + 1] = h[k + 1] OBVIOUS
  <2>1. /\ g[k + 1] = IF k + 1 = 1 THEN s[k + 1] ELSE g[(k + 1) - 1] \o s[k + 1]
        /\ h[k + 1] = IF k + 1 = 1 THEN t[k + 1] ELSE h[(k + 1) - 1] \o t[k + 1]
    <3>1. k + 1 \in 1..n /\ k + 1 \in 1..m OBVIOUS
    <3> QED BY <3>1, FlatAt
  <2>2. CASE k = 0 BY <2>1, <2>2
  <2>3. CASE k # 0
    <3>1. (k + 1) - 1 = k /\ k \in 1..n BY <2>3
    <3> QED BY <1>2, <2>1, <2>3, <3>1
  <2> QED BY <2>2, <2>3
<1> HIDE DEF S
<1>3. Nat \subseteq S BY <1>1, <1>2, SetInduction
<1> QED BY <1>3 DEF S

LEMMA FlattenEmpty == FlattenSeq(<<>>) = <<>>
BY DEF FlattenSeq

LEMMA FlattenType ==
  ASSUME NEW C, NEW s \in Seq(Seq(C))
  PROVE  FlattenSeq(s) \in Seq(C)
<1>1. CASE Len(s) = 0
  <2>1. s = <<>> /\ <<>> \in Seq(C) BY <1>1
  <2> QED BY <2>1, FlattenEmpty
<1>2. CASE Len(s) # 0
  <2> DEFINE g == FlatOf(s, Len(s))
             S == {k \in Nat : k \in 1..Len(s) => g[k] \in Seq(C)}
  <2>1. Flat(g, s, Len(s)) BY FlatOfIs
  <2> HIDE DEF g
  <2>2. 0 \in S OBVIOUS
  <2>3. ASSUME NEW k \in Nat, k \in S PROVE k + 1 \in S
    <3> SUFFICES ASSUME k + 1 \in 1..Len(s) PROVE g[k + 1] \in Seq(C) OBVIOUS
    <3>1. g[k + 1] = IF k + 1 = 1 THEN s[k + 1] ELSE g[(k + 1) - 1] \o s[k + 1]
      BY <2>1, FlatAt
    <3>2. s[k + 1] \in Seq(C) OBVIOUS
    <3>3. CASE k = 0 BY <3>1, <3>2, <3>3
    <3>4. CASE k # 0
      <4>1. (k + 1) - 1 = k /\ k \in 1..Len(s) BY <3>4
      <4> QED BY <2>3, <3>1, <3>2, <3>4, <4>1
    <3> QED BY <3>3, <3>4
  <2> HIDE DEF S
  <2>4. Nat \subseteq S BY <2>2, <2>3, SetInduction
  <2>5. Len(s) \in S /\ Len(s) \in 1..Len(s) BY <1>2, <2>4
  <2>6. g[Len(s)] \in Seq(C) BY <2>5 DEF S
  <2> QED BY <1>2, <2>6, FlattenDef DEF g
<1> QED BY <1>1, <1>2

LEMMA FlattenAppend ==
  ASSUME NEW C, NEW s \in Seq(Seq(C)), NEW x \in Seq(C)
  PROVE  FlattenSeq(Append(s, x)) = FlattenSeq(s) \o x
<1> DEFINE t == Append(s, x)
           n == Len(s)
           g == FlatOf(s, n)
           h == FlatOf(t, n + 1)
<1>1. /\ n \in Nat /\ n + 1 \in Nat /\ n <= n + 1 /\ n + 1 # 0
      /\ t \in Seq(Seq(C)) /\ Len(t) = n + 1 /\ t[n + 1] = x /\ \A i \in 1..n : s[i] = t[i]
  BY AppendProperties
<1>2. Flat(g, s, n) /\ Flat(h, t, n + 1) BY FlatOfIs
<1>3. FlattenSeq(t) = h[n + 1] BY <1>1, FlattenDef
<1> HIDE DEF g, h, t
<1>4. h[n + 1] = IF n + 1 = 1 THEN t[n + 1] ELSE h[(n + 1) - 1] \o t[n + 1]
  BY <1>2, FlatAt
<1>5. CASE n = 0
  <2>1. s = <<>> /\ FlattenSeq(s) = <<>> BY <1>5, FlattenEmpty
  <2> QED BY <1>1, <1>3, <1>4, <1>5, <2>1 DEF t
<1>6. CASE n # 0
  <2>1. \A i \in 1..n : g[i] = h[i]
    <3>1. \A i \in 1..n : s[i] = t[i] BY <1>1
    <3> HIDE DEF n
    <3> DEFINE m == n + 1
    <3>2. n \in Nat /\ m \in Nat /\ n <= m BY <1>1
    <3>3. Flat(g, s, n) /\ Flat(h, t, m) BY <1>2
    <3> HIDE DEF m
    <3> QED BY <3>1, <3>2, <3>3, FlatUnique
  <2>2. h[n] = g[n] /\ (n + 1) - 1 = n /\ n + 1 # 1 BY <1>1, <1>6, <2>1
  <2>3. FlattenSeq(s) = g[n] BY <1>6, FlattenDef DEF g
  <2>4. h[n + 1] = h[n] \o x BY <1>1, <1>4, <2>2
  <2> QED BY <1>3, <2>2, <2>3, <2>4 DEF t
<1> QED BY <1>5, <1>6
-----------------------------------------------------------------------------
(* Decimal *)

\* The value of Decimal at n, from those before.
Body(g, n) ==
  IF n = 0 THEN <<"0">>
  ELSE IF n < 10 THEN <<Digit[n]>>
  ELSE g[n \div 10] \o IF n % 10 = 0 THEN <<"0">> ELSE <<Digit[n % 10]>>

Upwards(g, n) == g = [m \in 0..n |-> Body(g, m)]
Decimals(n) == CHOOSE g : Upwards(g, n)

LEMMA BodySame ==
  ASSUME NEW g, NEW h, NEW n \in Nat, n >= 10 => g[n \div 10] = h[n \div 10]
  PROVE  Body(g, n) = Body(h, n)
BY DEF Body

LEMMA UpwardsAt ==
  ASSUME NEW g, NEW n, Upwards(g, n), NEW m \in 0..n
  PROVE  g[m] = Body(g, m)
<1>1. [k \in 0..n |-> Body(g, k)][m] = Body(g, m) OBVIOUS
<1> QED BY <1>1, Zenon DEF Upwards

LEMMA UpwardsExists ==
  ASSUME NEW n \in Nat
  PROVE  Upwards(Decimals(n), n)
<1> DEFINE S == {m \in Nat : \E g : Upwards(g, m)}
<1>1. 0 \in S
  <2> DEFINE g == [m \in 0..0 |-> <<"0">>]
  <2>1. \A m \in 0..0 : Body(g, m) = <<"0">> BY DEF Body
  <2>2. Upwards(g, 0) BY <2>1 DEF Upwards
  <2> QED BY <2>2
<1>2. ASSUME NEW m \in Nat, m \in S PROVE m + 1 \in S
  <2>1. PICK g : Upwards(g, m) BY <1>2
  <2> DEFINE h == [k \in 0..m + 1 |-> IF k <= m THEN g[k] ELSE Body(g, k)]
  <2>2. ASSUME NEW k \in 0..m + 1 PROVE h[k] = Body(h, k)
    <3>1. k >= 10 => h[k \div 10] = g[k \div 10]
      <4>1. k >= 10 => k \div 10 \in 0..m + 1 /\ k \div 10 <= m OBVIOUS
      <4> QED BY <4>1
    <3>2. Body(h, k) = Body(g, k) BY <3>1, BodySame
    <3>3. h[k] = IF k <= m THEN g[k] ELSE Body(g, k) OBVIOUS
    <3>4. k <= m => g[k] = Body(g, k)
      <4> SUFFICES ASSUME k <= m PROVE g[k] = Body(g, k) OBVIOUS
      <4>1. k \in 0..m OBVIOUS
      <4> QED BY <2>1, <4>1, UpwardsAt
    <3> HIDE DEF h
    <3> QED BY <3>2, <3>3, <3>4
  <2>3. Upwards(h, m + 1)
    <3>1. h = [k \in 0..m + 1 |-> h[k]] OBVIOUS
    <3> HIDE DEF h
    <3> QED BY <2>2, <3>1 DEF Upwards
  <2> HIDE DEF h
  <2> QED BY <2>3
<1> HIDE DEF S
<1>3. n \in S BY <1>1, <1>2, SetInduction
<1>4. \E g : Upwards(g, n) BY <1>3 DEF S
<1> QED BY <1>4, Zenon DEF Decimals

LEMMA UpwardsUnique ==
  ASSUME NEW n \in Nat, NEW m \in 0..n
  PROVE  Decimals(n)[m] = Decimals(m)[m]
<1> DEFINE S == {k \in Nat : \A i, j \in Nat : k <= i /\ k <= j => Decimals(i)[k] = Decimals(j)[k]}
<1>1. ASSUME NEW k \in Nat, \A l \in 0..k - 1 : l \in S PROVE k \in S
  <2> SUFFICES ASSUME NEW i \in Nat, NEW j \in Nat, k <= i, k <= j
               PROVE  Decimals(i)[k] = Decimals(j)[k]
    OBVIOUS
  <2>1. Decimals(i)[k] = Body(Decimals(i), k) /\ Decimals(j)[k] = Body(Decimals(j), k)
    <3>1. k \in 0..i /\ k \in 0..j OBVIOUS
    <3> QED BY <3>1, UpwardsExists, UpwardsAt
  <2>2. k >= 10 => Decimals(i)[k \div 10] = Decimals(j)[k \div 10]
    <3>1. k >= 10 => k \div 10 \in 0..k - 1 /\ k \div 10 <= i /\ k \div 10 <= j OBVIOUS
    <3> QED BY <1>1, <3>1
  <2> QED BY <2>1, <2>2, BodySame
<1> HIDE DEF S
<1>2. m \in S BY <1>1, StrongInduction
<1> QED BY <1>2 DEF S

LEMMA DecimalDef ==
  ASSUME NEW n \in Nat
  PROVE  Decimal[n] = Body(Decimal, n)
<1> DEFINE F == [m \in Nat |-> Decimals(m)[m]]
           Is(f) == f = [m \in Nat |-> Body(f, m)]
<1>1. ASSUME NEW m \in Nat PROVE F[m] = Body(F, m)
  <2>1. Decimals(m)[m] = Body(Decimals(m), m)
    <3>1. m \in 0..m OBVIOUS
    <3> QED BY <3>1, UpwardsExists, UpwardsAt
  <2>2. m >= 10 => Decimals(m)[m \div 10] = F[m \div 10]
    <3>1. m >= 10 => m \div 10 \in 0..m OBVIOUS
    <3> QED BY <3>1, UpwardsUnique
  <2> QED BY <2>1, <2>2, BodySame
<1>2. Is(F)
  <2>1. F = [m \in Nat |-> F[m]] OBVIOUS
  <2> HIDE DEF F
  <2> QED BY <1>1, <2>1
<1>3. Decimal = CHOOSE f : Is(f) BY DEF Decimal, Body
<1> HIDE DEF F, Is
<1>4. Is(Decimal) BY <1>2, <1>3, Zenon
<1>5. [m \in Nat |-> Body(Decimal, m)][n] = Body(Decimal, n) OBVIOUS
<1> QED BY <1>4, <1>5, Zenon DEF Is

Figures == {"0", "1", "2", "3", "4", "5", "6", "7", "8", "9"}

Figure(d) == IF d = 0 THEN "0" ELSE Digit[d]

LEMMA FiguresDiffer ==
  /\ \A d \in 0..9 : Figure(d) \in Figures
  /\ \A d, e \in 0..9 : Figure(d) = Figure(e) => d = e
<1>1. /\ Digit[1] = "1" /\ Digit[2] = "2" /\ Digit[3] = "3" /\ Digit[4] = "4"
      /\ Digit[5] = "5" /\ Digit[6] = "6" /\ Digit[7] = "7" /\ Digit[8] = "8"
      /\ Digit[9] = "9"
  BY DEF Digit
<1>2. \A d \in 0..9 : d \in {0, 1, 2, 3, 4, 5, 6, 7, 8, 9} OBVIOUS
<1> QED BY <1>1, <1>2 DEF Figure, Figures

LEMMA DecimalIs ==
  ASSUME NEW n \in Nat
  PROVE  /\ n < 10 => Decimal[n] = <<Figure(n)>>
         /\ n >= 10 => Decimal[n] = Decimal[n \div 10] \o <<Figure(n % 10)>>
<1>1. n % 10 \in 0..9 OBVIOUS
<1>2. n < 10 => Body(Decimal, n) = <<Figure(n)>> BY DEF Body, Figure
<1>3. n >= 10 => Body(Decimal, n) = Decimal[n \div 10] \o <<Figure(n % 10)>>
  BY <1>1 DEF Body, Figure
<1> QED BY <1>2, <1>3, DecimalDef

LEMMA DecimalType ==
  ASSUME NEW n \in Nat
  PROVE  Decimal[n] \in Seq(Figures) /\ Decimal[n] # <<>>
<1> DEFINE S == {m \in Nat : Decimal[m] \in Seq(Figures) /\ Decimal[m] # <<>>}
<1>1. ASSUME NEW m \in Nat, \A k \in 0..m - 1 : k \in S PROVE m \in S
  <2>1. CASE m < 10
    <3>1. Figure(m) \in Figures BY <2>1, FiguresDiffer
    <3>2. Decimal[m] = <<Figure(m)>> BY <2>1, DecimalIs
    <3>3. Decimal[m] \in Seq(Figures) /\ Decimal[m] # <<>> BY <3>1, <3>2
    <3> QED BY <3>3
  <2>2. CASE ~(m < 10)
    <3>1. m \div 10 \in 0..m - 1 /\ m % 10 \in 0..9 BY <2>2
    <3>2. Decimal[m \div 10] \in Seq(Figures) /\ Figure(m % 10) \in Figures
      BY <1>1, <3>1, FiguresDiffer
    <3>3. Decimal[m] = Decimal[m \div 10] \o <<Figure(m % 10)>> BY <2>2, DecimalIs
    <3>4. Decimal[m] = Append(Decimal[m \div 10], Figure(m % 10))
      BY <3>2, <3>3, AppendIsConcat
    <3>5. Decimal[m] \in Seq(Figures) /\ Decimal[m] # <<>>
      BY <3>2, <3>4, AppendProperties
    <3> QED BY <3>5
  <2> QED BY <2>1, <2>2
<1> HIDE DEF S
<1>2. n \in S BY <1>1, StrongInduction
<1> QED BY <1>2 DEF S

\* Different lengths are written differently.
LEMMA DecimalsDiffer ==
  ASSUME NEW n \in Nat, NEW m \in Nat, Decimal[n] = Decimal[m]
  PROVE  n = m
<1> DEFINE S == {k \in Nat : \A l \in Nat : Decimal[k] = Decimal[l] => k = l}
<1>1. ASSUME NEW k \in Nat, \A j \in 0..k - 1 : j \in S PROVE k \in S
  <2> SUFFICES ASSUME NEW l \in Nat, Decimal[k] = Decimal[l] PROVE k = l
    OBVIOUS
  <2> DEFINE K == Decimal[k \div 10]
             L == Decimal[l \div 10]
  <2>1. k \div 10 \in Nat /\ l \div 10 \in Nat /\ k % 10 \in 0..9 /\ l % 10 \in 0..9
    OBVIOUS
  <2>2. K \in Seq(Figures) /\ K # <<>> /\ L \in Seq(Figures) /\ L # <<>>
    BY <2>1, DecimalType
  <2>3. /\ k < 10 => Decimal[k] = <<Figure(k)>>
        /\ k >= 10 => Decimal[k] = K \o <<Figure(k % 10)>>
        /\ l < 10 => Decimal[l] = <<Figure(l)>>
        /\ l >= 10 => Decimal[l] = L \o <<Figure(l % 10)>>
    BY DecimalIs
  <2> HIDE DEF K, L
  <2>0. ASSUME NEW d \in Figures, NEW D \in Seq(Figures), D # <<>>
        PROVE  Len(<<d>>) = 1 /\ Len(D \o <<d>>) # 1
    <3>1. Len(D) \in Nat \ {0} /\ <<d>> \in Seq(Figures) /\ Len(<<d>>) = 1 BY <2>0, EmptySeq
    <3>2. Len(D \o <<d>>) = Len(D) + Len(<<d>>) BY <3>1, ConcatProperties
    <3> QED BY <3>1, <3>2
  <2>4. /\ k < 10 => Figure(k) \in Figures /\ Len(Decimal[k]) = 1
        /\ l < 10 => Figure(l) \in Figures /\ Len(Decimal[l]) = 1
        /\ k >= 10 => Figure(k % 10) \in Figures /\ Len(Decimal[k]) # 1
        /\ l >= 10 => Figure(l % 10) \in Figures /\ Len(Decimal[l]) # 1
    <3>1. /\ k < 10 => Figure(k) \in Figures
          /\ l < 10 => Figure(l) \in Figures
          /\ Figure(k % 10) \in Figures /\ Figure(l % 10) \in Figures
      BY <2>1, FiguresDiffer
    <3> QED BY <2>0, <2>2, <2>3, <3>1
  <2>5. CASE k < 10
    <3>1. l < 10
      <4>1. Len(Decimal[k]) = 1 BY <2>4, <2>5
      <4>2. Len(Decimal[l]) = 1 BY <4>1
      <4>3. ~(l >= 10) BY <2>4, <4>2
      <4> QED BY <4>3
    <3>2. Figure(k) = Figure(l) BY <2>3, <2>5, <3>1
    <3> QED BY <2>5, <3>1, <3>2, FiguresDiffer
  <2>6. CASE k >= 10
    <3>1. l >= 10
      <4>1. Len(Decimal[k]) # 1 BY <2>4, <2>6
      <4>2. Len(Decimal[l]) # 1 BY <4>1
      <4>3. ~(l < 10) BY <2>4, <4>2
      <4> QED BY <4>3
    <3>2. Append(K, Figure(k % 10)) = Append(L, Figure(l % 10))
      BY <2>2, <2>3, <2>4, <2>6, <3>1, AppendIsConcat
    <3>3. K = L /\ Figure(k % 10) = Figure(l % 10)
      BY <2>2, <2>4, <2>6, <3>1, <3>2, AppendInjective
    <3>4. k % 10 = l % 10 BY <2>1, <3>3, FiguresDiffer
    <3>5. k \div 10 = l \div 10
      <4>1. k \div 10 \in S BY <1>1, <2>6
      <4> QED BY <2>1, <3>3, <4>1 DEF K, L
    <3> QED BY <3>4, <3>5
  <2> QED BY <2>5, <2>6
<1> HIDE DEF S
<1>2. n \in S BY <1>1, StrongInduction
<1> QED BY <1>2 DEF S

-----------------------------------------------------------------------------
(* create_redis_key *)

Alphabet == Letters \cup Figures \cup {":"}

Strings == Seq(Alphabet)

Separated(ps) == [n \in 1..Len(ps) |-> <<":">> \o ps[n]]
Spelled(ps)   == [n \in 1..Len(ps) |-> PiecesOf(ps[n])]
Pieces(ps)    == <<Prefix>> \o FlattenSeq(Spelled(ps))

LEMMA SeparatedAppend ==
  ASSUME NEW ps \in Seq(Strings), NEW p \in Strings
  PROVE  /\ Separated(ps) \in Seq(Strings) /\ <<":">> \o p \in Strings
         /\ Separated(Append(ps, p)) = Append(Separated(ps), <<":">> \o p)
<1>0. \A t \in Strings : <<":">> \o t \in Strings
  BY DEF Strings, Alphabet
<1>1. Separated(ps) \in Seq(Strings) /\ Len(Separated(ps)) = Len(ps)
  BY <1>0 DEF Separated
<1> DEFINE t == Append(ps, p)
           u == Append(Separated(ps), <<":">> \o p)
<1>2. /\ Len(t) = Len(ps) + 1 /\ Len(ps) \in Nat /\ t[Len(ps) + 1] = p
      /\ \A n \in 1..Len(ps) : t[n] = ps[n]
  BY AppendProperties
<1>3. /\ u \in Seq(Strings) /\ Len(u) = Len(ps) + 1 /\ u[Len(ps) + 1] = <<":">> \o p
      /\ \A n \in 1..Len(ps) : u[n] = <<":">> \o ps[n]
  BY <1>0, <1>1, AppendProperties DEF Separated
<1>4. u = [n \in 1..Len(ps) + 1 |-> u[n]]
  <2> HIDE DEF u
  <2> QED BY <1>3
<1> HIDE DEF t, u
<1>5. ASSUME NEW n \in 1..Len(ps) + 1 PROVE u[n] = <<":">> \o t[n]
  <2>1. CASE n \in 1..Len(ps) BY <1>2, <1>3, <2>1
  <2>2. CASE n = Len(ps) + 1 BY <1>2, <1>3, <2>2
  <2> QED BY <1>2, <2>1, <2>2
<1>6. Separated(t) = u
  BY <1>2, <1>4, <1>5 DEF Separated
<1> QED BY <1>0, <1>1, <1>6 DEF t, u

LEMMA JoinAppend ==
  ASSUME NEW ps \in Seq(Strings), ps # <<>>, NEW p \in Strings
  PROVE  Join(Append(ps, p)) = Join(ps) \o (<<":">> \o p) /\ Join(ps) \in Strings
<1> DEFINE t == <<":">> \o p
           f == FlattenSeq(Separated(ps))
<1>1. /\ Separated(ps) \in Seq(Strings) /\ t \in Strings
      /\ Separated(Append(ps, p)) = Append(Separated(ps), t)
  BY SeparatedAppend
<1>2. FlattenSeq(Separated(Append(ps, p))) = f \o t
  BY <1>1, FlattenAppend DEF Strings
<1>3. f \in Strings /\ f # <<>>
  <2>1. PICK qs \in Seq(Strings), q \in Strings : ps = Append(qs, q)
    BY SequenceEmptyOrAppend
  <2> DEFINE g == FlattenSeq(Separated(qs))
             v == <<":">> \o q
  <2>2. /\ Separated(qs) \in Seq(Strings) /\ v \in Strings
        /\ Separated(ps) = Append(Separated(qs), v)
    BY <2>1, SeparatedAppend
  <2>3. f = g \o v /\ g \in Strings BY <2>2, FlattenAppend, FlattenType DEF Strings
  <2>4. Len(v) # 0 BY DEF Strings
  <2> HIDE DEF f, g, v
  <2> QED BY <2>2, <2>3, <2>4 DEF Strings
<1> HIDE DEF t, f
<1>4. Tail(f \o t) = Tail(f) \o t /\ Tail(f) \in Strings
  BY <1>1, <1>3 DEF Strings
<1> QED BY <1>2, <1>4 DEF Join, Separated, t, f

LEMMA SpelledAppend ==
  ASSUME NEW ps \in Seq(Strings), NEW p \in Strings
  PROVE  /\ Spelled(ps) \in Seq(Seq(Strings)) /\ PiecesOf(p) \in Seq(Strings)
         /\ Spelled(Append(ps, p)) = Append(Spelled(ps), PiecesOf(p))
<1>0. ASSUME NEW t \in Strings PROVE PiecesOf(t) \in Seq(Strings)
  <2>1. Len(t) \in Nat BY DEF Strings
  <2>2. Decimal[Len(t)] \in Strings BY <2>1, DecimalType DEF Strings, Alphabet
  <2> QED BY <2>2 DEF PiecesOf
<1>1. Spelled(ps) \in Seq(Seq(Strings)) /\ Len(Spelled(ps)) = Len(ps)
  BY <1>0 DEF Spelled
<1> DEFINE t == Append(ps, p)
           u == Append(Spelled(ps), PiecesOf(p))
<1>2. /\ Len(t) = Len(ps) + 1 /\ Len(ps) \in Nat /\ t[Len(ps) + 1] = p
      /\ \A n \in 1..Len(ps) : t[n] = ps[n]
  BY AppendProperties
<1>3. /\ u \in Seq(Seq(Strings)) /\ Len(u) = Len(ps) + 1 /\ u[Len(ps) + 1] = PiecesOf(p)
      /\ \A n \in 1..Len(ps) : u[n] = PiecesOf(ps[n])
  BY <1>0, <1>1, AppendProperties DEF Spelled
<1>4. u = [n \in 1..Len(ps) + 1 |-> u[n]]
  <2> HIDE DEF u
  <2> QED BY <1>3
<1> HIDE DEF t, u
<1>5. ASSUME NEW n \in 1..Len(ps) + 1 PROVE u[n] = PiecesOf(t[n])
  <2>1. CASE n \in 1..Len(ps) BY <1>2, <1>3, <2>1
  <2>2. CASE n = Len(ps) + 1 BY <1>2, <1>3, <2>2
  <2> QED BY <1>2, <2>1, <2>2
<1>6. Spelled(t) = u
  BY <1>2, <1>4, <1>5 DEF Spelled
<1> QED BY <1>0, <1>1, <1>6 DEF t, u

LEMMA PiecesAppend ==
  ASSUME NEW ps \in Seq(Strings), NEW p \in Strings
  PROVE  /\ Pieces(ps) \in Seq(Strings) /\ Pieces(ps) # <<>>
         /\ Decimal[Len(p)] \in Strings
         /\ Pieces(Append(ps, p)) = Pieces(ps) \o PiecesOf(p)
         /\ Pieces(Append(ps, p)) = Append(Append(Pieces(ps), Decimal[Len(p)]), p)
<1> DEFINE f == FlattenSeq(Spelled(ps))
<1>1. /\ Spelled(ps) \in Seq(Seq(Strings)) /\ PiecesOf(p) \in Seq(Strings)
      /\ Spelled(Append(ps, p)) = Append(Spelled(ps), PiecesOf(p))
  BY SpelledAppend
<1>2. f \in Seq(Strings) /\ FlattenSeq(Spelled(Append(ps, p))) = f \o PiecesOf(p)
  BY <1>1, FlattenAppend, FlattenType
<1>3. <<Prefix>> \in Seq(Strings)
  <2>1. Prefix \in Strings BY TextAssumption, SeqMonotonic DEF Strings, Alphabet
  <2> QED BY <2>1
<1>4. Decimal[Len(p)] \in Strings
  <2>1. Len(p) \in Nat BY DEF Strings
  <2> QED BY <2>1, DecimalType DEF Strings, Alphabet
<1> HIDE DEF f
<1>5. Pieces(ps) \in Seq(Strings) /\ Pieces(ps) # <<>> /\ Pieces(ps) = <<Prefix>> \o f
  BY <1>2, <1>3 DEF Pieces, f
<1>6. Pieces(Append(ps, p)) = Pieces(ps) \o PiecesOf(p)
  <2> DEFINE v == PiecesOf(p)
  <2>1. Pieces(Append(ps, p)) = <<Prefix>> \o (f \o v) BY <1>1, <1>2 DEF Pieces
  <2>2. v \in Seq(Strings) BY <1>1
  <2> DEFINE u == <<Prefix>>
  <2>3. u \in Seq(Strings) BY <1>3
  <2> HIDE DEF u, v
  <2>4. Cat(Cat(u, f), v) = Cat(u, Cat(f, v)) BY <1>2, <2>2, <2>3, CatIs
  <2>5. (u \o f) \o v = u \o (f \o v) BY <2>4, Zenon DEF Cat
  <2>6. Pieces(ps) \o v = (u \o f) \o v BY <1>5 DEF u
  <2> QED BY <2>1, <2>5, <2>6 DEF u, v
<1>7. Pieces(ps) \o <<Decimal[Len(p)], p>> = Append(Append(Pieces(ps), Decimal[Len(p)]), p)
  <2> HIDE DEF Pieces
  <2> QED BY <1>4, <1>5
<1> QED BY <1>4, <1>5, <1>6, <1>7 DEF PiecesOf

\* A key of one part more.
LEMMA KeyAppend ==
  ASSUME NEW ps \in Seq(Strings), NEW p \in Strings
  PROVE  /\ KeyOf(ps) \in Strings /\ Decimal[Len(p)] \in Strings
         /\ KeyOf(Append(ps, p)) =
              (KeyOf(ps) \o (<<":">> \o Decimal[Len(p)])) \o (<<":">> \o p)
<1>1. KeyOf(ps) = Join(Pieces(ps)) /\ KeyOf(Append(ps, p)) = Join(Pieces(Append(ps, p)))
  BY DEF KeyOf, Pieces, Spelled
<1> DEFINE d == Decimal[Len(p)]
           q == Append(Pieces(ps), d)
<1>2. /\ Pieces(ps) \in Seq(Strings) /\ Pieces(ps) # <<>> /\ d \in Strings
      /\ Pieces(Append(ps, p)) = Append(q, p)
  BY PiecesAppend
<1> HIDE DEF d
<1>3. q \in Seq(Strings) /\ q # <<>> BY <1>2
<1>4. Join(q) = Join(Pieces(ps)) \o (<<":">> \o d) /\ Join(Pieces(ps)) \in Strings
  BY <1>2, JoinAppend
<1> HIDE DEF q
<1>5. Join(Append(q, p)) = Join(q) \o (<<":">> \o p)
  BY <1>3, JoinAppend
<1> QED BY <1>1, <1>2, <1>4, <1>5 DEF d

LEMMA ConcatAt ==
  ASSUME NEW C, NEW a \in Seq(C), NEW b \in Seq(C)
  PROVE  /\ a \o b \in Seq(C) /\ Len(a \o b) = Len(a) + Len(b)
         /\ \A i \in 1..Len(a) : (a \o b)[i] = a[i]
         /\ \A i \in 1..Len(b) : (a \o b)[Len(a) + i] = b[i]
<1>1. Len(a) \in Nat /\ Len(b) \in Nat OBVIOUS
<1>2. ASSUME NEW i \in 1..Len(a) PROVE (a \o b)[i] = a[i]
  BY <1>1, ConcatProperties
<1>3. ASSUME NEW i \in 1..Len(b) PROVE (a \o b)[Len(a) + i] = b[i]
  <2>1. Len(a) + i \in 1..Len(a) + Len(b) /\ ~(Len(a) + i <= Len(a)) /\ (Len(a) + i) - Len(a) = i
    BY <1>1
  <2> QED BY <2>1, ConcatProperties
<1> QED BY <1>2, <1>3, ConcatProperties

\* Where a part of the key is, and its length.
LEMMA KeyGrows ==
  ASSUME NEW ps \in Seq(Strings), NEW p \in Strings
  PROVE  LET old == KeyOf(ps)
             new == KeyOf(Append(ps, p))
             length == Decimal[Len(p)]
             start == Len(old) + Len(length) + 2
         IN  /\ old \in Strings /\ new \in Strings
             /\ length \in Seq(Figures) /\ Len(length) \in Nat
             /\ Len(new) = start + Len(p)
             /\ \A i \in 1..Len(old) : new[i] = old[i]
             /\ \A i \in 1..Len(length) : new[Len(old) + 1 + i] = length[i]
             /\ new[start] = ":"
             /\ \A i \in 1..Len(p) : new[start + i] = p[i]
<1> DEFINE old == KeyOf(ps)
           new == KeyOf(Append(ps, p))
           length == Decimal[Len(p)]
           left == <<":">> \o length
           right == <<":">> \o p
<1>1. old \in Strings /\ length \in Strings /\ new = (old \o left) \o right
  BY KeyAppend
<1>2. length \in Seq(Figures)
  <2>1. Len(p) \in Nat BY DEF Strings
  <2> QED BY <2>1, DecimalType
<1>3. ":" \in Alphabet BY DEF Alphabet
<1> HIDE DEF old, new, length
<1>4. /\ left \in Strings /\ Len(left) = 1 + Len(length) /\ left[1] = ":"
      /\ \A i \in 1..Len(length) : left[1 + i] = length[i]
      /\ right \in Strings /\ Len(right) = 1 + Len(p) /\ right[1] = ":"
      /\ \A i \in 1..Len(p) : right[1 + i] = p[i]
  BY <1>1, <1>3 DEF Strings
<1> DEFINE mid == old \o left
<1>5. /\ Len(old) \in Nat /\ Len(length) \in Nat /\ Len(p) \in Nat
  BY <1>1 DEF Strings
<1> HIDE DEF left, right
<1>6. /\ mid \in Strings /\ Len(mid) = Len(old) + Len(left)
      /\ \A i \in 1..Len(old) : mid[i] = old[i]
      /\ \A i \in 1..Len(left) : mid[Len(old) + i] = left[i]
  <2>1. old \in Strings /\ left \in Strings BY <1>1, <1>4
  <2> QED BY <2>1, ConcatAt DEF Strings
<1> HIDE DEF mid
<1>7. /\ new \in Strings /\ Len(new) = Len(mid) + Len(right)
      /\ \A i \in 1..Len(mid) : new[i] = mid[i]
      /\ \A i \in 1..Len(right) : new[Len(mid) + i] = right[i]
  <2>1. new = mid \o right BY <1>1 DEF mid
  <2>2. mid \in Strings /\ right \in Strings BY <1>4, <1>6
  <2> QED BY <2>1, <2>2, ConcatAt DEF Strings
<1> DEFINE start == Len(old) + Len(length) + 2
<1>8. Len(mid) + 1 = start /\ Len(new) = start + Len(p)
  BY <1>4, <1>5, <1>6, <1>7
<1>9. ASSUME NEW i \in 1..Len(old) PROVE new[i] = old[i]
  BY <1>4, <1>5, <1>6, <1>7
<1>10. ASSUME NEW i \in 1..Len(length) PROVE new[Len(old) + 1 + i] = length[i]
  <2>1. 1 + i \in 1..Len(left) /\ Len(old) + (1 + i) \in 1..Len(mid)
    BY <1>4, <1>5, <1>6
  <2>2. new[Len(old) + (1 + i)] = left[1 + i] BY <1>6, <1>7, <2>1
  <2> QED BY <1>4, <1>5, <2>2
<1>11. new[start] = ":"
  <2>1. 1 \in 1..Len(right) BY <1>4, <1>5
  <2> QED BY <1>4, <1>7, <1>8, <2>1
<1>12. ASSUME NEW i \in 1..Len(p) PROVE new[start + i] = p[i]
  <2>1. 1 + i \in 1..Len(right) /\ Len(mid) + (1 + i) = start + i
    BY <1>4, <1>5, <1>6, <1>8
  <2> QED BY <1>4, <1>7, <2>1
<1> QED BY <1>1, <1>2, <1>5, <1>7, <1>8, <1>9, <1>10, <1>11, <1>12 DEF old, new, length

Extends(long, short) ==
  /\ Len(short) <= Len(long)
  /\ \A i \in 1..Len(short) : long[i] = short[i]

LEMMA ChainExtends ==
  ASSUME NEW C, NEW N \in Nat, NEW f \in [0..N -> Seq(C)],
         \A m \in 0..N - 1 : Extends(f[m + 1], f[m]), NEW n \in 0..N
  PROVE  Extends(f[N], f[n])
<1> DEFINE S == {k \in Nat : n + k <= N => Extends(f[n + k], f[n])}
<1>1. 0 \in S
  <2>1. n + 0 = n /\ Len(f[n]) \in Nat OBVIOUS
  <2> QED BY <2>1 DEF Extends
<1>2. ASSUME NEW k \in Nat, k \in S PROVE k + 1 \in S
  <2> SUFFICES ASSUME n + (k + 1) <= N PROVE Extends(f[n + (k + 1)], f[n])
    OBVIOUS
  <2> DEFINE m == n + k
  <2>1. m \in 0..N - 1 /\ m \in 0..N /\ m + 1 \in 0..N /\ n + (k + 1) = m + 1
    OBVIOUS
  <2>2. Extends(f[m + 1], f[m]) BY <2>1
  <2>3. Extends(f[m], f[n]) BY <1>2, <2>1
  <2>4. f[m + 1] \in Seq(C) /\ f[m] \in Seq(C) /\ f[n] \in Seq(C) BY <2>1
  <2> HIDE DEF m
  <2>5. Extends(f[m + 1], f[n]) BY <2>2, <2>3, <2>4 DEF Extends
  <2> QED BY <2>1, <2>5
<1> HIDE DEF S
<1>3. N - n \in S
  <2>1. N - n \in Nat OBVIOUS
  <2> QED BY <1>1, <1>2, <2>1, SetInduction
<1>4. n + (N - n) = N OBVIOUS
<1> QED BY <1>3, <1>4 DEF S

First(ps, n) == SubSeq(ps, 1, n)

LEMMA FirstAppend ==
  ASSUME NEW ps \in Seq(Strings), NEW n \in Nat, n < Len(ps)
  PROVE  /\ First(ps, n) \in Seq(Strings) /\ ps[n + 1] \in Strings
         /\ First(ps, n + 1) = Append(First(ps, n), ps[n + 1])
BY DEF First

\* A key extends the keys of its first parts.
LEMMA KeyExtends ==
  ASSUME NEW ps \in Seq(Strings), NEW n \in 0..Len(ps)
  PROVE  Extends(KeyOf(ps), KeyOf(First(ps, n)))
<1> DEFINE f == [k \in 0..Len(ps) |-> KeyOf(First(ps, k))]
<1>1. f \in [0..Len(ps) -> Strings]
  <2>1. \A k \in 0..Len(ps) : First(ps, k) \in Seq(Strings) BY DEF First
  <2>2. \E p : p \in Strings
    <3>1. <<>> \in Strings BY DEF Strings
    <3> QED BY <3>1
  <2> QED BY <2>1, <2>2, KeyAppend
<1>2. ASSUME NEW k \in 0..Len(ps) - 1 PROVE Extends(f[k + 1], f[k])
  <2>1. k \in Nat /\ k < Len(ps) /\ k \in 0..Len(ps) /\ k + 1 \in 0..Len(ps) OBVIOUS
  <2> DEFINE p == ps[k + 1]
  <2>2. /\ First(ps, k) \in Seq(Strings) /\ p \in Strings
        /\ First(ps, k + 1) = Append(First(ps, k), p)
    BY <2>1, FirstAppend
  <2>3. f[k] = KeyOf(First(ps, k)) /\ f[k + 1] = KeyOf(Append(First(ps, k), p))
    BY <2>1, <2>2
  <2> DEFINE old == f[k]
             new == f[k + 1]
  <2>4. old = KeyOf(First(ps, k)) /\ new = KeyOf(Append(First(ps, k), p)) BY <2>3
  <2> HIDE DEF old, new, p
  <2>5. /\ old \in Strings /\ Len(Decimal[Len(p)]) \in Nat
        /\ Len(new) = Len(old) + Len(Decimal[Len(p)]) + 2 + Len(p)
        /\ \A i \in 1..Len(old) : new[i] = old[i]
    BY <2>2, <2>4, KeyGrows
  <2>6. Len(old) \in Nat /\ Len(p) \in Nat BY <2>2, <2>5 DEF Strings
  <2>7. Extends(new, old) BY <2>5, <2>6 DEF Extends
  <2> QED BY <2>7 DEF old, new
<1>3. f[Len(ps)] = KeyOf(ps) /\ f[n] = KeyOf(First(ps, n)) BY SubSeqFull DEF First
<1> HIDE DEF f
<1>4. Extends(f[Len(ps)], f[n])
  <2>1. Len(ps) \in Nat OBVIOUS
  <2> QED BY <1>1, <1>2, <2>1, ChainExtends DEF Strings
<1> QED BY <1>3, <1>4

\* Two parts after the same parts of the same key: the length of the one cannot
\* end inside that of the other, where there is a digit.
LEMMA LengthsEnd ==
  ASSUME NEW ps \in Seq(Strings), NEW p \in Strings, NEW q \in Strings, NEW key,
         Extends(key, KeyOf(Append(ps, p))), Extends(key, KeyOf(Append(ps, q)))
  PROVE  ~(Len(Decimal[Len(p)]) < Len(Decimal[Len(q)]))
<1> DEFINE old == KeyOf(ps)
           c == Decimal[Len(p)]
           d == Decimal[Len(q)]
           new == KeyOf(Append(ps, p))
           other == KeyOf(Append(ps, q))
           start == Len(old) + Len(c) + 2
<1>1. /\ old \in Strings /\ Len(c) \in Nat /\ Len(new) = start + Len(p) /\ new[start] = ":"
  BY KeyGrows
<1>2. /\ d \in Seq(Figures) /\ Len(d) \in Nat
      /\ Len(other) = (Len(old) + Len(d) + 2) + Len(q)
      /\ \A i \in 1..Len(d) : other[Len(old) + 1 + i] = d[i]
  BY KeyGrows
<1>3. Len(old) \in Nat /\ Len(p) \in Nat /\ Len(q) \in Nat
  BY <1>1 DEF Strings
<1>4. /\ \A i \in 1..Len(new) : key[i] = new[i]
      /\ \A i \in 1..Len(other) : key[i] = other[i]
  BY DEF Extends
<1> HIDE DEF old, c, d, new, other
<1> SUFFICES ASSUME Len(c) < Len(d) PROVE FALSE
  BY DEF c, d
<1>5. start \in 1..Len(new) /\ start \in 1..Len(other) /\ Len(c) + 1 \in 1..Len(d)
      /\ Len(old) + 1 + (Len(c) + 1) = start
  BY <1>1, <1>2, <1>3
<1>6. key[start] = ":" /\ key[start] = other[start] BY <1>1, <1>4, <1>5
<1>7. other[start] = d[Len(c) + 1] BY <1>2, <1>5
<1>8. d[Len(c) + 1] \in Figures BY <1>2, <1>5, ElementOfSeq
<1> QED BY <1>6, <1>7, <1>8 DEF Figures

LEMMA SamePart ==
  ASSUME NEW ps \in Seq(Strings), NEW p \in Strings, NEW q \in Strings, NEW key,
         Extends(key, KeyOf(Append(ps, p))), Extends(key, KeyOf(Append(ps, q)))
  PROVE  p = q
<1> DEFINE old == KeyOf(ps)
           c == Decimal[Len(p)]
           d == Decimal[Len(q)]
           new == KeyOf(Append(ps, p))
           other == KeyOf(Append(ps, q))
           start == Len(old) + Len(c) + 2
<1>1. /\ old \in Strings /\ c \in Seq(Figures) /\ Len(c) \in Nat /\ Len(new) = start + Len(p)
      /\ \A i \in 1..Len(c) : new[Len(old) + 1 + i] = c[i]
      /\ \A i \in 1..Len(p) : new[start + i] = p[i]
  BY KeyGrows
<1>2. /\ d \in Seq(Figures) /\ Len(d) \in Nat
      /\ Len(other) = (Len(old) + Len(d) + 2) + Len(q)
      /\ \A i \in 1..Len(d) : other[Len(old) + 1 + i] = d[i]
      /\ \A i \in 1..Len(q) : other[(Len(old) + Len(d) + 2) + i] = q[i]
  BY KeyGrows
<1>3. Len(old) \in Nat /\ Len(p) \in Nat /\ Len(q) \in Nat
  BY <1>1 DEF Strings
<1>4. /\ \A i \in 1..Len(new) : key[i] = new[i]
      /\ \A i \in 1..Len(other) : key[i] = other[i]
  BY DEF Extends
<1>5. Len(c) = Len(d)
  <2>1. ~(Len(c) < Len(d)) /\ ~(Len(d) < Len(c)) BY LengthsEnd
  <2> QED BY <1>1, <1>2, <2>1
<1> HIDE DEF old, c, d, new, other
<1>6. c = d
  <2>1. ASSUME NEW i \in 1..Len(c) PROVE c[i] = d[i]
    <3>1. /\ Len(old) + 1 + i \in 1..Len(new) /\ Len(old) + 1 + i \in 1..Len(other)
          /\ i \in 1..Len(d)
      BY <1>1, <1>2, <1>3, <1>5
    <3> QED BY <1>1, <1>2, <1>4, <3>1
  <2> QED BY <1>1, <1>2, <1>5, <2>1, SeqEqual
<1>7. Len(p) = Len(q) BY <1>3, <1>6, DecimalsDiffer DEF c, d
<1>8. ASSUME NEW i \in 1..Len(p) PROVE p[i] = q[i]
  <2>1. /\ start + i \in 1..Len(new) /\ start + i \in 1..Len(other) /\ i \in 1..Len(q)
        /\ start + i = (Len(old) + Len(d) + 2) + i
    BY <1>1, <1>2, <1>3, <1>5, <1>7
  <2>2. new[start + i] = p[i] BY <1>1
  <2>3. other[(Len(old) + Len(d) + 2) + i] = q[i] BY <1>2, <2>1
  <2>4. key[start + i] = new[start + i] /\ key[start + i] = other[start + i]
    BY <1>4, <2>1
  <2> QED BY <2>1, <2>2, <2>3, <2>4
<1> QED BY <1>7, <1>8, SeqEqual DEF Strings

LEMMA SameParts ==
  ASSUME NEW ps \in Seq(Strings), NEW qs \in Seq(Strings), KeyOf(ps) = KeyOf(qs)
  PROVE  \A n \in Nat : n <= Len(ps) /\ n <= Len(qs) => First(ps, n) = First(qs, n)
<1> DEFINE S == {n \in Nat : n <= Len(ps) /\ n <= Len(qs) => First(ps, n) = First(qs, n)}
<1>1. 0 \in S
  <2>1. First(ps, 0) = <<>> /\ First(qs, 0) = <<>> BY SubSeqEmpty DEF First
  <2> QED BY <2>1
<1>2. ASSUME NEW n \in Nat, n \in S PROVE n + 1 \in S
  <2> SUFFICES ASSUME n + 1 <= Len(ps), n + 1 <= Len(qs)
               PROVE  First(ps, n + 1) = First(qs, n + 1)
    OBVIOUS
  <2>1. n < Len(ps) /\ n < Len(qs) /\ n + 1 \in 0..Len(ps) /\ n + 1 \in 0..Len(qs) OBVIOUS
  <2>2. First(ps, n) = First(qs, n) BY <1>2, <2>1
  <2>3. /\ First(ps, n) \in Seq(Strings) /\ ps[n + 1] \in Strings /\ qs[n + 1] \in Strings
        /\ First(ps, n + 1) = Append(First(ps, n), ps[n + 1])
        /\ First(qs, n + 1) = Append(First(ps, n), qs[n + 1])
    BY <2>1, <2>2, FirstAppend
  <2>4. /\ Extends(KeyOf(ps), KeyOf(First(ps, n + 1)))
        /\ Extends(KeyOf(ps), KeyOf(First(qs, n + 1)))
    BY <2>1, KeyExtends
  <2>5. ps[n + 1] = qs[n + 1] BY <2>3, <2>4, SamePart
  <2> QED BY <2>3, <2>5
<1> HIDE DEF S
<1>3. Nat \subseteq S BY <1>1, <1>2, SetInduction
<1> QED BY <1>3 DEF S

\* A key of more parts is longer.
LEMMA NoMoreParts ==
  ASSUME NEW ps \in Seq(Strings), NEW qs \in Seq(Strings), KeyOf(ps) = KeyOf(qs)
  PROVE  ~(Len(ps) < Len(qs))
<1> SUFFICES ASSUME Len(ps) < Len(qs) PROVE FALSE
  OBVIOUS
<1> DEFINE n == Len(ps)
<1>1. n \in Nat /\ n <= Len(ps) /\ n <= Len(qs) /\ n < Len(qs) /\ n + 1 \in 0..Len(qs)
  OBVIOUS
<1>2. First(qs, n) = ps
  <2>1. First(ps, n) = First(qs, n) BY <1>1, SameParts
  <2>2. First(ps, n) = ps BY SubSeqFull DEF First
  <2> QED BY <2>1, <2>2
<1>3. qs[n + 1] \in Strings /\ First(qs, n + 1) = Append(ps, qs[n + 1])
  BY <1>1, <1>2, FirstAppend
<1>4. Len(KeyOf(Append(ps, qs[n + 1]))) <= Len(KeyOf(qs))
  BY <1>1, <1>3, KeyExtends DEF Extends
<1> DEFINE q == qs[n + 1]
           d == Decimal[Len(q)]
<1>5. /\ KeyOf(ps) \in Strings /\ Len(d) \in Nat
      /\ Len(KeyOf(Append(ps, q))) = (Len(KeyOf(ps)) + Len(d) + 2) + Len(q)
  BY <1>3, KeyGrows
<1>6. Len(KeyOf(ps)) \in Nat /\ Len(q) \in Nat
  BY <1>3, <1>5 DEF Strings
<1> HIDE DEF n, q, d
<1>7. (Len(KeyOf(ps)) + Len(d) + 2) + Len(q) <= Len(KeyOf(ps)) BY <1>4, <1>5 DEF q
<1> QED BY <1>5, <1>6, <1>7

\* create_redis_key: the key tells the parts, for all texts and any number.
THEOREM KeyTellsParts ==
  ASSUME NEW ps \in Seq(Strings), NEW qs \in Seq(Strings), KeyOf(ps) = KeyOf(qs)
  PROVE  ps = qs
<1>1. Len(ps) = Len(qs)
  <2>1. ~(Len(ps) < Len(qs)) /\ ~(Len(qs) < Len(ps)) BY NoMoreParts
  <2> QED BY <2>1
<1>2. First(ps, Len(ps)) = First(qs, Len(qs)) BY <1>1, SameParts
<1> QED BY <1>2, SubSeqFull DEF First

LEMMA TextsAreStrings == Texts \subseteq Strings
<1> SUFFICES ASSUME NEW blocks \in BoundedSeq(Blocks, MaxBlocks)
             PROVE  FlattenSeq(blocks) \in Strings
  BY DEF Texts
<1>1. blocks \in Seq(Blocks) BY DEF BoundedSeq, SeqOf
<1>2. Blocks \subseteq Seq(Letters) BY TextAssumption
<1>3. blocks \in Seq(Seq(Letters)) BY <1>1, <1>2, SeqMonotonic
<1>4. FlattenSeq(blocks) \in Seq(Letters) BY <1>3, FlattenType
<1> QED BY <1>4, SeqMonotonic DEF Strings, Alphabet

\* The list that the loop builds is the one KeyOf speaks of.
KeyInv == parts \in Seq(Strings) /\ pieces = Pieces(parts)

LEMMA KeyInitInv == KeyInit => KeyInv
<1> SUFFICES ASSUME KeyInit PROVE KeyInv
  OBVIOUS
<1>1. parts \in Seq(Strings) BY DEF KeyInit
<1>2. Spelled(parts) = <<>> BY DEF KeyInit, Spelled
<1>3. pieces = <<Prefix>> \o <<>> BY DEF KeyInit
<1> QED BY <1>1, <1>2, <1>3, FlattenEmpty DEF KeyInv, Pieces

LEMMA KeyNextInv == KeyInv /\ [KeyNext]_keyVars => KeyInv'
<1> SUFFICES ASSUME KeyInv, [KeyNext]_keyVars PROVE KeyInv'
  OBVIOUS
<1>1. ASSUME NEW part \in Texts, AppendPart(part) PROVE KeyInv'
  <2>1. part \in Strings BY TextsAreStrings
  <2>2. parts' \in Seq(Strings) BY <1>1, <2>1 DEF KeyInv, AppendPart
  <2>3. Pieces(Append(parts, part)) = Pieces(parts) \o PiecesOf(part)
    BY <2>1, PiecesAppend DEF KeyInv
  <2> QED BY <1>1, <2>2, <2>3 DEF KeyInv, AppendPart
<1>2. CASE UNCHANGED keyVars BY <1>2 DEF keyVars, KeyInv
<1> QED BY <1>1, <1>2 DEF KeyNext

\* The same of the machine: whatever parts the loop has taken, the key it would
\* return now is no other parts' key.
THEOREM KeysNeverCollide == KeySpec => []KeysDiffer
<1>1. KeyInit => KeyInv BY KeyInitInv
<1>2. KeyInv /\ [KeyNext]_keyVars => KeyInv' BY KeyNextInv
<1>3. KeyInv => KeysDiffer
  <2> SUFFICES ASSUME KeyInv, NEW other \in AllParts, KeyOf(other) = Join(pieces)
               PROVE  other = parts
    BY DEF KeysDiffer
  <2>1. other \in Seq(Texts) BY DEF AllParts, BoundedSeq, SeqOf
  <2>2. other \in Seq(Strings) BY <2>1, TextsAreStrings, SeqMonotonic
  <2>3. KeyOf(parts) = Join(pieces) BY DEF KeyInv, KeyOf, Pieces, Spelled
  <2> QED BY <2>2, <2>3, KeyTellsParts DEF KeyInv
<1> QED BY <1>1, <1>2, <1>3, PTL DEF KeySpec

-----------------------------------------------------------------------------
(* Quote: every character by itself *)

Reserved == {"@", "/", ":", "?", "#", "%"}
Hex == {"4", "0", "2", "F", "3", "A", "5"}

LEMMA EscapedIs ==
  /\ \A e \in Escaped : e[1] \in Reserved /\ e[2] \in Hex /\ e[3] \in Hex
  /\ \A c \in Reserved : \E e \in Escaped : e[1] = c
  /\ \A e, f \in Escaped : e[1] = f[1] => e = f
  /\ \A e, f \in Escaped : e[2] = f[2] /\ e[3] = f[3] => e[1] = f[1]
BY DEF Escaped, Reserved, Hex

\* Escaping is by the table, and the rest stays.
LEMMA EscapeIs ==
  ASSUME NEW c
  PROVE  /\ c \notin Reserved => Escape({}, c) = <<c>>
         /\ c \in Reserved =>
              \E e \in Escaped : e[1] = c /\ Escape({}, c) = <<"%", e[2], e[3]>>
<1>1. CASE c \notin Reserved
  BY <1>1, EscapedIs DEF Escape
<1>2. CASE c \in Reserved
  <2> DEFINE e == CHOOSE e \in Escaped : e[1] = c
  <2>1. \E f \in Escaped : f[1] = c BY <1>2, EscapedIs
  <2>2. e \in Escaped /\ e[1] = c BY <2>1
  <2>3. Escape({}, c) = <<"%", e[2], e[3]>> BY <2>1 DEF Escape
  <2> HIDE DEF e
  <2> QED BY <1>2, <2>2, <2>3
<1> QED BY <1>1, <1>2

Url == Seq(UrlCharacters)

\* What quoted text is made of.
Quoted == (UrlCharacters \ Reserved) \cup {"%"}

LEMMA EscapeType ==
  ASSUME NEW c \in UrlCharacters
  PROVE  Escape({}, c) \in Seq(Quoted) /\ Len(Escape({}, c)) \in {1, 3}
<1>1. Hex \subseteq Quoted BY DEF Hex, Quoted, UrlCharacters, Reserved
<1>2. CASE c \notin Reserved
  <2>1. Escape({}, c) = <<c>> /\ c \in Quoted BY <1>2, EscapeIs DEF Quoted
  <2>2. \A q \in Quoted : <<q>> \in Seq(Quoted) /\ Len(<<q>>) = 1 OBVIOUS
  <2> QED BY <2>1, <2>2
<1>3. CASE c \in Reserved
  <2>1. PICK e \in Escaped : e[1] = c /\ Escape({}, c) = <<"%", e[2], e[3]>>
    BY <1>3, EscapeIs
  <2>2. e[2] \in Quoted /\ e[3] \in Quoted /\ "%" \in Quoted
    BY <1>1, EscapedIs DEF Quoted
  <2>3. \A p, q, r \in Quoted : <<p, q, r>> \in Seq(Quoted) /\ Len(<<p, q, r>>) = 3 OBVIOUS
  <2> QED BY <2>1, <2>2, <2>3
<1> QED BY <1>2, <1>3

Escapes(text) == [n \in 1..Len(text) |-> Escape({}, text[n])]

LEMMA EscapesAppend ==
  ASSUME NEW text \in Url, NEW c \in UrlCharacters
  PROVE  /\ Escapes(text) \in Seq(Seq(Quoted))
         /\ Escapes(Append(text, c)) = Append(Escapes(text), Escape({}, c))
<1>1. \A d \in UrlCharacters : Escape({}, d) \in Seq(Quoted) BY EscapeType
<1>2. Escapes(text) \in Seq(Seq(Quoted)) /\ Len(Escapes(text)) = Len(text)
  BY <1>1 DEF Escapes, Url
<1> DEFINE t == Append(text, c)
           u == Append(Escapes(text), Escape({}, c))
<1>3. /\ Len(t) = Len(text) + 1 /\ Len(text) \in Nat /\ t[Len(text) + 1] = c
      /\ \A n \in 1..Len(text) : t[n] = text[n]
  BY AppendProperties DEF Url
<1>4. /\ u \in Seq(Seq(Quoted)) /\ Len(u) = Len(text) + 1 /\ u[Len(text) + 1] = Escape({}, c)
      /\ \A n \in 1..Len(text) : u[n] = Escape({}, text[n])
  BY <1>1, <1>2, AppendProperties DEF Escapes
<1> HIDE DEF t, u
<1>5. u = [n \in 1..Len(text) + 1 |-> u[n]] BY <1>4
<1>6. ASSUME NEW n \in 1..Len(text) + 1 PROVE u[n] = Escape({}, t[n])
  <2>1. CASE n \in 1..Len(text) BY <1>3, <1>4, <2>1
  <2>2. CASE n = Len(text) + 1 BY <1>3, <1>4, <2>2
  <2> QED BY <1>3, <2>1, <2>2
<1>7. Escapes(t) = u BY <1>3, <1>5, <1>6 DEF Escapes
<1> QED BY <1>2, <1>7 DEF t, u

LEMMA QuoteAppend ==
  ASSUME NEW text \in Url, NEW c \in UrlCharacters
  PROVE  /\ Quote(text) \in Seq(Quoted)
         /\ Quote(Append(text, c)) = Quote(text) \o Escape({}, c)
<1>1. Quote(text) = FlattenSeq(Escapes(text)) /\ Quote(Append(text, c)) = FlattenSeq(Escapes(Append(text, c)))
  BY DEF Quote, QuoteKeeping, Escapes
<1>2. /\ Escapes(text) \in Seq(Seq(Quoted)) /\ Escape({}, c) \in Seq(Quoted)
      /\ Escapes(Append(text, c)) = Append(Escapes(text), Escape({}, c))
  BY EscapesAppend, EscapeType
<1>3. FlattenSeq(Append(Escapes(text), Escape({}, c))) = FlattenSeq(Escapes(text)) \o Escape({}, c)
  BY <1>2, FlattenAppend
<1>4. FlattenSeq(Escapes(text)) \in Seq(Quoted) BY <1>2, FlattenType
<1> QED BY <1>1, <1>2, <1>3, <1>4

LEMMA QuoteEmpty == Quote(<<>>) = <<>>
<1>1. [n \in 1..Len(<<>>) |-> Escape({}, <<>>[n])] = <<>> OBVIOUS
<1> QED BY <1>1, FlattenEmpty DEF Quote, QuoteKeeping

\* Quoting is character after character: the quoted text begins as the quoted
\* beginning does, and the next character's escape follows.
LEMMA QuoteStep ==
  ASSUME NEW text \in Url, NEW k \in Nat, k < Len(text)
  PROVE  /\ First(text, k) \in Url /\ text[k + 1] \in UrlCharacters
         /\ Quote(First(text, k)) \in Seq(Quoted)
         /\ Quote(First(text, k + 1)) = Quote(First(text, k)) \o Escape({}, text[k + 1])
<1>1. /\ First(text, k) \in Url /\ text[k + 1] \in UrlCharacters
      /\ First(text, k + 1) = Append(First(text, k), text[k + 1])
  BY DEF First, Url
<1> QED BY <1>1, QuoteAppend

LEMMA QuoteType ==
  ASSUME NEW text \in Url
  PROVE  Quote(text) \in Seq(Quoted)
<1>1. \E c : c \in UrlCharacters BY DEF UrlCharacters
<1> QED BY <1>1, QuoteAppend

LEMMA QuoteExtends ==
  ASSUME NEW text \in Url, NEW n \in 0..Len(text)
  PROVE  Extends(Quote(text), Quote(First(text, n)))
<1> DEFINE f == [k \in 0..Len(text) |-> Quote(First(text, k))]
<1>1. Len(text) \in Nat BY DEF Url
<1>2. f \in [0..Len(text) -> Seq(Quoted)]
  <2>1. ASSUME NEW k \in 0..Len(text) PROVE First(text, k) \in Url BY DEF First, Url
  <2> QED BY <2>1, QuoteType
<1>3. ASSUME NEW k \in 0..Len(text) - 1 PROVE Extends(f[k + 1], f[k])
  <2>1. k \in Nat /\ k < Len(text) /\ k \in 0..Len(text) /\ k + 1 \in 0..Len(text) BY <1>1
  <2>2. /\ f[k] = Quote(First(text, k)) /\ f[k + 1] = Quote(First(text, k + 1)) BY <2>1
  <2> DEFINE x == Escape({}, text[k + 1])
  <2>3. x \in Seq(Quoted) BY <2>1, QuoteStep, EscapeType
  <2>4. f[k] \in Seq(Quoted) /\ f[k + 1] = f[k] \o x BY <2>1, <2>2, QuoteStep
  <2> HIDE DEF f, x
  <2>5. /\ Len(f[k] \o x) = Len(f[k]) + Len(x)
        /\ \A i \in 1..Len(f[k]) : (f[k] \o x)[i] = f[k][i]
    BY <2>3, <2>4, ConcatAt
  <2> QED BY <2>3, <2>4, <2>5 DEF Extends
<1>4. f[Len(text)] = Quote(text) /\ f[n] = Quote(First(text, n))
  <2>1. First(text, Len(text)) = text BY SubSeqFull DEF First, Url
  <2>2. Len(text) \in 0..Len(text) BY <1>1
  <2> QED BY <2>1, <2>2
<1> HIDE DEF f
<1>5. Extends(f[Len(text)], f[n]) BY <1>1, <1>2, <1>3, ChainExtends
<1> QED BY <1>4, <1>5

-----------------------------------------------------------------------------
(* Unquote reads from the right, in its definition *)

Hits(text, n) ==
  {e \in Escaped : text[n] = "%" /\ n + 2 <= Len(text)
                   /\ e[2] = text[n + 1] /\ e[3] = text[n + 2]}

\* The value of the local function at n, from those after.
Rest(g, text, n) ==
  IF n > Len(text) THEN <<>>
  ELSE IF Hits(text, n) = {} THEN <<text[n]>> \o g[n + 1]
  ELSE <<(CHOOSE e \in Hits(text, n) : TRUE)[1]>> \o g[n + 3]

Downwards(g, text) == g = [n \in 1..Len(text) + 3 |-> Rest(g, text, n)]
Reading(text) == CHOOSE g : Downwards(g, text)

LEMMA UnquoteDef ==
  ASSUME NEW text
  PROVE  Unquote(text) = Reading(text)[1]
BY DEF Unquote, Reading, Downwards, Rest, Hits

LEMMA DownwardsAt ==
  ASSUME NEW g, NEW text, Downwards(g, text), NEW n \in 1..Len(text) + 3
  PROVE  g[n] = Rest(g, text, n)
<1>1. [m \in 1..Len(text) + 3 |-> Rest(g, text, m)][n] = Rest(g, text, n) OBVIOUS
<1> QED BY <1>1, Zenon DEF Downwards

LEMMA RestSame ==
  ASSUME NEW g, NEW h, NEW text, NEW n,
         n > Len(text) \/ (g[n + 1] = h[n + 1] /\ g[n + 3] = h[n + 3])
  PROVE  Rest(g, text, n) = Rest(h, text, n)
BY DEF Rest

LEMMA ReadingIs ==
  ASSUME NEW text, Len(text) \in Nat
  PROVE  Downwards(Reading(text), text)
<1> DEFINE end == Len(text) + 3
           Right(g, k) == \A n \in 1..end : n > end - k => g[n] = Rest(g, text, n)
           S == {k \in Nat : \E g : Right(g, k)}
<1>1. 0 \in S
  <2>1. Right(<<>>, 0) OBVIOUS
  <2> QED BY <2>1
<1>2. ASSUME NEW k \in Nat, k \in S PROVE k + 1 \in S
  <2>1. PICK g : Right(g, k) BY <1>2
  <2> DEFINE h == [n \in 1..end |-> IF n > end - k THEN g[n] ELSE Rest(g, text, n)]
  <2>2. ASSUME NEW n \in 1..end, n > end - (k + 1) PROVE h[n] = Rest(h, text, n)
    <3>1. Rest(g, text, n) = Rest(h, text, n)
      <4>1. CASE n > Len(text) BY <4>1, RestSame
      <4>2. CASE ~(n > Len(text))
        <5>1. /\ n + 1 \in 1..end /\ n + 1 > end - k
              /\ n + 3 \in 1..end /\ n + 3 > end - k
          BY <2>2, <4>2
        <5>2. g[n + 1] = h[n + 1] /\ g[n + 3] = h[n + 3] BY <5>1
        <5> HIDE DEF h
        <5> QED BY <5>2, RestSame
      <4> QED BY <4>1, <4>2
    <3>2. h[n] = Rest(g, text, n) BY <2>1
    <3> HIDE DEF h
    <3> QED BY <3>1, <3>2
  <2> HIDE DEF h
  <2>3. Right(h, k + 1) BY <2>2
  <2> QED BY <2>3
<1> HIDE DEF S
<1>3. end \in S
  <2>1. end \in Nat OBVIOUS
  <2> QED BY <1>1, <1>2, <2>1, SetInduction
<1>4. PICK g : Right(g, end) BY <1>3 DEF S
<1> DEFINE h == [n \in 1..end |-> g[n]]
<1>5. ASSUME NEW n \in 1..end PROVE h[n] = Rest(h, text, n)
  <2>1. Rest(g, text, n) = Rest(h, text, n)
    <3>1. CASE n > Len(text) BY <3>1, RestSame
    <3>2. CASE ~(n > Len(text))
      <4>1. n + 1 \in 1..end /\ n + 3 \in 1..end BY <3>2
      <4>2. g[n + 1] = h[n + 1] /\ g[n + 3] = h[n + 3] BY <4>1
      <4> HIDE DEF h
      <4> QED BY <4>2, RestSame
    <3> QED BY <3>1, <3>2
  <2>2. h[n] = g[n] /\ g[n] = Rest(g, text, n)
    <3>1. n > end - end OBVIOUS
    <3> QED BY <1>4, <3>1
  <2> HIDE DEF h
  <2> QED BY <2>1, <2>2
<1>6. Downwards(h, text)
  <2>1. h = [n \in 1..end |-> h[n]] OBVIOUS
  <2> HIDE DEF h
  <2> QED BY <1>5, <2>1 DEF Downwards
<1> HIDE DEF h
<1>7. \E f : Downwards(f, text) BY <1>6
<1> QED BY <1>7, Zenon DEF Reading

\* At the escape of a character, it is the character that is read.
LEMMA RestAt ==
  ASSUME NEW text \in Seq(Quoted), NEW c \in UrlCharacters, NEW n \in 1..Len(text), NEW g,
         n - 1 + Len(Escape({}, c)) <= Len(text),
         \A i \in 1..Len(Escape({}, c)) : text[n - 1 + i] = Escape({}, c)[i]
  PROVE  Rest(g, text, n) = <<c>> \o g[n + Len(Escape({}, c))]
<1> DEFINE x == Escape({}, c)
<1>1. CASE c \notin Reserved
  <2>1. x = <<c>> /\ Len(x) = 1 /\ x[1] = c BY <1>1, EscapeIs
  <2>2. c # "%" BY <1>1 DEF Reserved
  <2> HIDE DEF x
  <2>3. text[n] = c
    <3>1. 1 \in 1..Len(x) /\ n - 1 + 1 = n BY <2>1
    <3>2. text[n - 1 + 1] = x[1] BY <3>1 DEF x
    <3> QED BY <2>1, <3>1, <3>2
  <2>4. Hits(text, n) = {} BY <2>2, <2>3 DEF Hits
  <2>5. ~(n > Len(text)) OBVIOUS
  <2>6. Rest(g, text, n) = <<c>> \o g[n + 1] BY <2>3, <2>4, <2>5 DEF Rest
  <2> QED BY <2>1, <2>6 DEF x
<1>2. CASE c \in Reserved
  <2>1. PICK e \in Escaped : e[1] = c /\ x = <<"%", e[2], e[3]>>
    BY <1>2, EscapeIs
  <2>2. Len(x) = 3 /\ x[1] = "%" /\ x[2] = e[2] /\ x[3] = e[3] BY <2>1
  <2> HIDE DEF x
  <2>3. text[n] = "%" /\ text[n + 1] = e[2] /\ text[n + 2] = e[3] /\ n + 2 <= Len(text)
    <3>1. /\ 1 \in 1..Len(x) /\ 2 \in 1..Len(x) /\ 3 \in 1..Len(x)
          /\ n - 1 + 1 = n /\ n - 1 + 2 = n + 1 /\ n - 1 + 3 = n + 2
      BY <2>2
    <3>2. /\ \A i \in 1..Len(x) : text[n - 1 + i] = x[i]
          /\ n - 1 + Len(x) <= Len(text)
      BY DEF x
    <3> QED BY <2>2, <3>1, <3>2
  <2>4. e \in Hits(text, n) BY <2>3 DEF Hits
  <2>5. \A f \in Hits(text, n) : f[1] = c
    <3>1. \A f \in Hits(text, n) : f \in Escaped /\ f[2] = e[2] /\ f[3] = e[3]
      BY <2>3 DEF Hits
    <3> QED BY <2>1, <3>1, EscapedIs
  <2> DEFINE f == CHOOSE f \in Hits(text, n) : TRUE
  <2>6. f[1] = c BY <2>4, <2>5
  <2>7. ~(n > Len(text)) /\ Hits(text, n) # {} BY <2>4
  <2>8. Rest(g, text, n) = <<f[1]>> \o g[n + 3] BY <2>7 DEF Rest
  <2> HIDE DEF f
  <2> QED BY <2>2, <2>6, <2>8 DEF x
<1> QED BY <1>1, <1>2

\* Whatever the text, what was quoted is read again.
THEOREM UnquoteQuote ==
  ASSUME NEW text \in Url
  PROVE  Unquote(Quote(text)) = text
<1> DEFINE N == Len(text)
           X == Quote(text)
           g == Reading(X)
           to(k) == Len(Quote(First(text, k)))
           S == {j \in Nat : j <= N => g[to(N - j) + 1] = SubSeq(text, N - j + 1, N)}
<1>1. N \in Nat /\ X \in Seq(Quoted) /\ Len(X) \in Nat BY QuoteType DEF Url
<1>2. Downwards(g, X) BY <1>1, ReadingIs
<1>3. to(N) = Len(X) /\ to(0) = 0
  <2>1. First(text, N) = text /\ First(text, 0) = <<>>
    BY SubSeqFull, SubSeqEmpty DEF First, Url
  <2> QED BY <2>1, QuoteEmpty
<1> HIDE DEF g
<1>4. 0 \in S
  <2>1. g[Len(X) + 1] = <<>>
    <3>1. Len(X) + 1 \in 1..Len(X) + 3 /\ Len(X) + 1 > Len(X) BY <1>1
    <3>2. g[Len(X) + 1] = Rest(g, X, Len(X) + 1) BY <1>2, <3>1, DownwardsAt
    <3> QED BY <3>1, <3>2 DEF Rest
  <2>2. SubSeq(text, N + 1, N) = <<>> BY <1>1, SubSeqEmpty
  <2>3. N - 0 = N BY <1>1
  <2> HIDE DEF N, X, to
  <2> QED BY <1>3, <2>1, <2>2, <2>3
<1>5. ASSUME NEW j \in Nat, j \in S PROVE j + 1 \in S
  <2> SUFFICES ASSUME j + 1 <= N
               PROVE  g[to(N - (j + 1)) + 1] = SubSeq(text, N - (j + 1) + 1, N)
    OBVIOUS
  <2> DEFINE k == N - (j + 1)
             c == text[k + 1]
             x == Escape({}, c)
             old == Quote(First(text, k))
             new == Quote(First(text, k + 1))
             n == Len(old) + 1
  <2>1. /\ k \in Nat /\ k < N /\ k + 1 = N - j /\ k + 1 \in 0..N /\ k + 1 \in 1..N
    BY <1>1
  <2>2. g[to(k + 1) + 1] = SubSeq(text, (k + 1) + 1, N) BY <1>5, <2>1
  <2>3. c \in UrlCharacters /\ x \in Seq(Quoted) /\ Len(x) \in {1, 3}
    BY <2>1, QuoteStep, EscapeType
  <2>4. old \in Seq(Quoted) /\ new = old \o x BY <2>1, QuoteStep
  <2>5. Extends(X, new) BY <2>1, QuoteExtends
  <2>6. SubSeq(text, k + 1, N) = <<c>> \o SubSeq(text, (k + 1) + 1, N)
    BY <2>1, SubSeqRecursiveFirst DEF Url
  <2> DEFINE z == g[n]
             w == g[to(k + 1) + 1]
  <2>7. z = g[to(N - (j + 1)) + 1] /\ w = g[Len(new) + 1] OBVIOUS
  <2> HIDE DEF x, old, new, X
  <2>8. Len(old) \in Nat /\ Len(new) = Len(old) + Len(x) /\ Len(x) \in Nat \ {0}
    <3>1. x \in Seq(Quoted) /\ old \in Seq(Quoted) /\ new = old \o x BY <2>3, <2>4
    <3>2. Len(old \o x) = Len(old) + Len(x) BY <3>1, ConcatAt
    <3>3. Len(old) \in Nat BY <3>1
    <3>4. Len(x) \in {1, 3} BY <2>3
    <3>5. Len(x) \in Nat \ {0} BY <3>4
    <3>6. Len(new) = Len(old) + Len(x) BY <3>1, <3>2
    <3> QED BY <3>3, <3>5, <3>6
  <2>9. n \in 1..Len(X) /\ n \in 1..Len(X) + 3 /\ n - 1 + Len(x) <= Len(X)
    BY <1>1, <2>5, <2>8 DEF Extends
  <2>10. ASSUME NEW i \in 1..Len(x) PROVE X[n - 1 + i] = x[i]
    <3>1. new[Len(old) + i] = x[i] BY <2>3, <2>4, ConcatAt
    <3>2. Len(old) + i \in 1..Len(new) /\ n - 1 + i = Len(old) + i BY <2>8
    <3> QED BY <2>5, <3>1, <3>2 DEF Extends
  <2>11. g[n] = Rest(g, X, n) BY <1>2, <2>9, DownwardsAt
  <2>12. Rest(g, X, n) = <<c>> \o g[n + Len(x)]
    BY <1>1, <2>3, <2>9, <2>10, RestAt DEF x
  <2>13. n + Len(x) = Len(new) + 1 BY <2>8
  <2>14. z = <<c>> \o w BY <2>7, <2>11, <2>12, <2>13
  <2> HIDE DEF c, n, z, w, k, to, N
  <2>15. z = SubSeq(text, k + 1, N) BY <2>2, <2>6, <2>14 DEF w
  <2>16. k + 1 = N - (j + 1) + 1 BY DEF k
  <2> QED BY <2>7, <2>15, <2>16
<1> HIDE DEF S
<1>6. N \in S BY <1>1, <1>4, <1>5, SetInduction
<1>7. N - N = 0 /\ 0 + 1 = 1 BY <1>1
<1>8. g[1] = SubSeq(text, 1, N)
  <2>1. N <= N BY <1>1
  <2>2. g[to(N - N) + 1] = SubSeq(text, N - N + 1, N) BY <1>6, <2>1 DEF S
  <2> HIDE DEF N, to
  <2> QED BY <1>3, <1>7, <2>2
<1>9. Unquote(X) = g[1] BY UnquoteDef DEF g
<1> QED BY <1>8, <1>9, SubSeqFull DEF Url

-----------------------------------------------------------------------------
(* Taking the URL apart *)

LEMMA LeastIs ==
  ASSUME NEW S \in SUBSET Nat, NEW m \in S, \A n \in S : m <= n
  PROVE  Min(S) = m
<1> DEFINE Least(x) == x \in S /\ \A y \in S : x <= y
<1>1. \E x : Least(x) OBVIOUS
<1>2. Min(S) = CHOOSE x \in S : \A y \in S : x <= y BY DEF Min
<1>3. Min(S) \in S /\ \A y \in S : Min(S) <= y BY <1>1, <1>2
<1>4. Min(S) \in Nat /\ m \in Nat /\ Min(S) <= m /\ m <= Min(S) BY <1>3
<1> HIDE DEF Least
<1> QED BY <1>4

LEMMA GreatestIs ==
  ASSUME NEW S \in SUBSET Nat, NEW m \in S, \A n \in S : n <= m
  PROVE  Max(S) = m
<1> DEFINE Greatest(x) == x \in S /\ \A y \in S : x >= y
<1>1. \E x : Greatest(x) OBVIOUS
<1>2. Max(S) = CHOOSE x \in S : \A y \in S : x >= y BY DEF Max
<1>3. Max(S) \in S /\ \A y \in S : Max(S) >= y BY <1>1, <1>2
<1>4. Max(S) \in Nat /\ m \in Nat /\ Max(S) >= m /\ m >= Max(S) BY <1>3
<1> HIDE DEF Greatest
<1> QED BY <1>4

\* A text without any of these characters, before the end or one of them, is
\* what is read up to the first.
LEMMA CutAt ==
  ASSUME NEW C, NEW a \in Seq(C), NEW r \in Seq(C), NEW cs,
         \A i \in 1..Len(a) : a[i] \notin cs, r = <<>> \/ r[1] \in cs
  PROVE  /\ FirstOf(a \o r, cs) = Len(a) + 1
         /\ Upto(a \o r, Len(a) + 1) = a
<1> DEFINE t == a \o r
           S == Positions(t, cs) \cup {Len(t) + 1}
           m == Len(a) + 1
<1>1. /\ t \in Seq(C) /\ Len(t) = Len(a) + Len(r) /\ Len(a) \in Nat /\ Len(r) \in Nat
      /\ \A i \in 1..Len(a) : t[i] = a[i]
      /\ \A i \in 1..Len(r) : t[Len(a) + i] = r[i]
  BY ConcatAt
<1> HIDE DEF t
<1>2. \A n \in S : m <= n
  <2>1. ASSUME NEW n \in Positions(t, cs) PROVE m <= n
    <3>1. n \in 1..Len(t) /\ t[n] \in cs BY DEF Positions
    <3>2. ~(n \in 1..Len(a)) BY <1>1, <3>1
    <3> QED BY <1>1, <3>1, <3>2
  <2> QED BY <1>1, <2>1
<1>3. m \in S
  <2>1. CASE r = <<>> BY <1>1, <2>1
  <2>2. CASE r # <<>>
    <3>1. 1 \in 1..Len(r) /\ r[1] \in cs BY <2>2
    <3>2. m \in 1..Len(t) /\ t[m] \in cs BY <1>1, <3>1
    <3> QED BY <3>2 DEF Positions
  <2> QED BY <2>1, <2>2
<1>4. S \in SUBSET Nat BY <1>1 DEF Positions
<1>5. FirstOf(t, cs) = m
  <2> HIDE DEF S, m
  <2>1. Min(S) = m BY <1>2, <1>3, <1>4, LeastIs
  <2> QED BY <2>1 DEF S, FirstOf
<1>6. SubSeq(t, 1, Len(a)) = a
  <2>1. SubSeq(t, 1, Len(a)) \in Seq(C) /\ Len(SubSeq(t, 1, Len(a))) = Len(a) BY <1>1
  <2>2. \A i \in 1..Len(a) : SubSeq(t, 1, Len(a))[i] = a[i] BY <1>1
  <2> QED BY <2>1, <2>2, SeqEqual
<1>7. m - 1 = Len(a) BY <1>1
<1> QED BY <1>5, <1>6, <1>7 DEF t, Upto

LEMMA RestAfter ==
  ASSUME NEW C, NEW a \in Seq(C), NEW c \in C, NEW b \in Seq(C)
  PROVE  After(a \o (<<c>> \o b), Len(a) + 1) = b
<1> DEFINE r == <<c>> \o b
           t == a \o r
           u == SubSeq(t, Len(a) + 2, Len(t))
<1>1. /\ r \in Seq(C) /\ Len(r) = 1 + Len(b) /\ Len(b) \in Nat
      /\ \A i \in 1..Len(b) : r[1 + i] = b[i]
  OBVIOUS
<1> HIDE DEF r
<1>2. /\ t \in Seq(C) /\ Len(t) = Len(a) + Len(r) /\ Len(a) \in Nat
      /\ \A i \in 1..Len(r) : t[Len(a) + i] = r[i]
  <2>1. a \in Seq(C) /\ r \in Seq(C) BY <1>1
  <2> QED BY <2>1, ConcatAt
<1> HIDE DEF t
<1>3. u \in Seq(C) /\ Len(u) = Len(b)
  BY <1>1, <1>2
<1>4. ASSUME NEW i \in 1..Len(b) PROVE u[i] = b[i]
  <2>1. u[i] = t[Len(a) + 2 + i - 1] BY <1>1, <1>2
  <2>2. Len(a) + 2 + i - 1 = Len(a) + (1 + i) /\ 1 + i \in 1..Len(r) BY <1>1, <1>2
  <2> QED BY <1>1, <1>2, <2>1, <2>2
<1>5. u = b BY <1>3, <1>4, SeqEqual
<1>6. (Len(a) + 1) + 1 = Len(a) + 2 BY <1>2
<1> QED BY <1>5, <1>6 DEF After, t, r, u

Ends == {"/", "?", "#"}

LEMMA PlainTexts ==
  /\ Host \in Url /\ Database \in Url
  /\ \A i \in 1..Len(Host) : Host[i] \notin Ends \cup {"@"}
  /\ \A i \in 1..Len(Database) : Database[i] \notin {"?", "#"}
<1>1. Host \in Seq(Written) /\ Database \in Seq(Written) BY PlainAssumption
<1>2. Written \subseteq UrlCharacters BY DEF UrlCharacters
<1>3. DOMAIN Host = 1..Len(Host) /\ DOMAIN Database = 1..Len(Database) BY <1>1
<1>4. Host \in Url /\ Database \in Url BY <1>1, <1>2, SeqMonotonic DEF Url
<1> QED BY <1>3, <1>4, PlainAssumption DEF Ends

\* Where the authority ends and where the database does.
LEMMA Parts ==
  ASSUME NEW info \in Url, \A i \in 1..Len(info) : info[i] \notin Ends,
         NEW query \in {<<>>, <<"?", "s">>}
  PROVE  LET authority == info \o Host
             text == info \o Host \o <<"/">> \o Database \o query
             rest == Database \o query
         IN  /\ FirstOf(text, Ends) = Len(authority) + 1
             /\ Upto(text, Len(authority) + 1) = authority
             /\ After(text, Len(authority) + 1) = rest
             /\ Upto(rest, FirstOf(rest, {"?", "#"})) = Database
<1> DEFINE authority == info \o Host
           text == info \o Host \o <<"/">> \o Database \o query
           rest == Database \o query
           slash == <<"/">>
<1>1. /\ query \in Url /\ slash \in Url /\ "/" \in UrlCharacters /\ "/" \in Ends
      /\ query = <<>> \/ query[1] \in {"?", "#"}
  <2>1. "/" \in UrlCharacters /\ "?" \in UrlCharacters /\ "s" \in UrlCharacters
    BY DEF UrlCharacters
  <2>2. <<"/">> \in Url /\ <<>> \in Url /\ <<"?", "s">> \in Url BY <2>1 DEF Url
  <2>3. "/" \in Ends BY DEF Ends
  <2>4. query = <<>> \/ query[1] \in {"?", "#"} OBVIOUS
  <2> QED BY <2>1, <2>2, <2>3, <2>4
<1>2. Host \in Url /\ Database \in Url BY PlainTexts
<1>3. authority \in Url /\ rest \in Url BY <1>1, <1>2 DEF Url
<1>4. \A i \in 1..Len(authority) : authority[i] \notin Ends
  <2>1. /\ Len(authority) = Len(info) + Len(Host) /\ Len(info) \in Nat /\ Len(Host) \in Nat
        /\ \A i \in 1..Len(info) : authority[i] = info[i]
        /\ \A i \in 1..Len(Host) : authority[Len(info) + i] = Host[i]
    BY <1>2, ConcatAt DEF Url
  <2> HIDE DEF authority
  <2> SUFFICES ASSUME NEW i \in 1..Len(authority) PROVE authority[i] \notin Ends
    OBVIOUS
  <2>2. CASE i \in 1..Len(info) BY <2>1, <2>2
  <2>3. CASE ~(i \in 1..Len(info))
    <3>1. i - Len(info) \in 1..Len(Host) /\ Len(info) + (i - Len(info)) = i
      BY <2>1, <2>3
    <3>2. authority[i] = Host[i - Len(info)] BY <2>1, <3>1
    <3> QED BY <3>1, <3>2, PlainTexts
  <2> QED BY <2>2, <2>3
<1>5. text = authority \o (slash \o rest)
  <2>1. /\ info \in Seq(UrlCharacters) /\ Host \in Seq(UrlCharacters)
        /\ slash \in Seq(UrlCharacters) /\ Database \in Seq(UrlCharacters)
        /\ query \in Seq(UrlCharacters)
    BY <1>1, <1>2 DEF Url
  <2>2. /\ text = Cat(Cat(Cat(Cat(info, Host), slash), Database), query)
        /\ authority = Cat(info, Host) /\ rest = Cat(Database, query)
    BY Zenon DEF Cat
  <2> HIDE DEF text, authority, slash, rest
  <2>3. authority \in Seq(UrlCharacters) BY <1>3 DEF Url
  <2>4. text = Cat(authority, Cat(slash, rest)) BY <2>1, <2>2, <2>3, CatFour
  <2> QED BY <2>4, Zenon DEF Cat
<1>6. slash \o rest \in Url /\ (slash \o rest)[1] = "/" BY <1>1, <1>3 DEF Url
<1>7. Upto(rest, FirstOf(rest, {"?", "#"})) = Database
  <2>1. \A i \in 1..Len(Database) : Database[i] \notin {"?", "#"} BY PlainTexts
  <2> QED BY <1>1, <1>2, <2>1, CutAt DEF Url
<1>8. After(text, Len(authority) + 1) = rest
  <2> HIDE DEF authority, rest, text
  <2>1. After(authority \o (<<"/">> \o rest), Len(authority) + 1) = rest
    BY <1>1, <1>3, RestAfter DEF Url
  <2> QED BY <1>5, <2>1
<1> DEFINE r == slash \o rest
<1>9. r \in Url /\ r[1] \in Ends /\ text = authority \o r BY <1>1, <1>5, <1>6
<1> HIDE DEF authority, rest, text, r
<1>10. /\ FirstOf(authority \o r, Ends) = Len(authority) + 1
       /\ Upto(authority \o r, Len(authority) + 1) = authority
  BY <1>3, <1>4, <1>9, CutAt DEF Url
<1> QED BY <1>7, <1>8, <1>9, <1>10 DEF authority, rest, text

\* The host begins after the last @.
LEMMA LastAt ==
  ASSUME NEW i \in Url
  PROVE  LET authority == (i \o <<"@">>) \o Host
         IN  /\ Max(Positions(authority, {"@"}) \cup {0}) = Len(i) + 1
             /\ Upto(authority, Len(i) + 1) = i
             /\ After(authority, Len(i) + 1) = Host
<1> DEFINE info == i \o <<"@">>
           authority == info \o Host
           at == Len(i) + 1
           S == Positions(authority, {"@"}) \cup {0}
<1>1. <<"@">> \in Url /\ "@" \in UrlCharacters BY DEF Url, UrlCharacters
<1>2. info \in Url /\ Len(info) = at /\ info[at] = "@" /\ Len(i) \in Nat BY <1>1 DEF Url
<1>3. Host \in Url /\ Len(Host) \in Nat BY PlainTexts DEF Url
<1>4. authority = i \o (<<"@">> \o Host)
  <2> DEFINE mark == <<"@">>
  <2>1. authority = Cat(Cat(i, mark), Host) BY Zenon DEF Cat
  <2>2. /\ i \in Seq(UrlCharacters) /\ mark \in Seq(UrlCharacters)
        /\ Host \in Seq(UrlCharacters)
    BY <1>1, <1>3 DEF Url
  <2> HIDE DEF authority, info, mark
  <2>3. authority = Cat(i, Cat(mark, Host)) BY <2>1, <2>2, CatIs
  <2> QED BY <2>3, Zenon DEF Cat, mark
<1>5. After(authority, at) = Host BY <1>1, <1>3, <1>4, RestAfter DEF Url
<1> HIDE DEF info
<1>6. /\ Len(authority) = at + Len(Host)
      /\ \A k \in 1..at : authority[k] = info[k]
      /\ \A k \in 1..Len(Host) : authority[at + k] = Host[k]
  <2>1. info \in Seq(UrlCharacters) /\ Host \in Seq(UrlCharacters) BY <1>2, <1>3 DEF Url
  <2>0. Len(info) = at BY <1>2
  <2>2. /\ Len(info \o Host) = Len(info) + Len(Host)
        /\ \A k \in 1..Len(info) : (info \o Host)[k] = info[k]
        /\ \A k \in 1..Len(Host) : (info \o Host)[Len(info) + k] = Host[k]
    BY <2>1, ConcatAt
  <2> HIDE DEF at
  <2> QED BY <2>0, <2>2 DEF authority
<1>7. SubSeq(authority, 1, Len(i)) = i
  <2> DEFINE r == <<"@">> \o Host
  <2>1. r \in Url BY <1>1, <1>3 DEF Url
  <2> HIDE DEF r
  <2>2. /\ i \o r \in Url /\ Len(i \o r) = Len(i) + Len(r) /\ Len(r) \in Nat
        /\ \A k \in 1..Len(i) : (i \o r)[k] = i[k]
    BY <2>1, ConcatAt DEF Url
  <2> DEFINE u == i \o r
  <2>3. /\ u \in Url /\ Len(u) = Len(i) + Len(r) /\ Len(r) \in Nat
        /\ \A k \in 1..Len(i) : u[k] = i[k]
    BY <2>2
  <2> HIDE DEF u
  <2>4. /\ SubSeq(u, 1, Len(i)) \in Url /\ Len(SubSeq(u, 1, Len(i))) = Len(i)
        /\ \A k \in 1..Len(i) : SubSeq(u, 1, Len(i))[k] = i[k]
    BY <1>2, <2>3 DEF Url
  <2>5. SubSeq(u, 1, Len(i)) = i BY <2>4, SeqEqual DEF Url
  <2> QED BY <1>4, <2>5 DEF u, r
<1>8. Upto(authority, at) = i
  <2>1. at - 1 = Len(i) BY <1>2
  <2> HIDE DEF at, authority
  <2> QED BY <1>7, <2>1 DEF Upto
<1> HIDE DEF authority
<1>9. Max(S) = at
  <2>1. S \in SUBSET Nat BY <1>2, <1>3, <1>6 DEF Positions
  <2>2. at \in S
    <3>1. at \in 1..Len(authority) /\ authority[at] = "@" BY <1>2, <1>3, <1>6
    <3> QED BY <3>1 DEF Positions
  <2>3. ASSUME NEW k \in S PROVE k <= at
    <3> SUFFICES ASSUME k > at PROVE FALSE BY <1>2, <2>1
    <3>1. k \in 1..at + Len(Host) /\ authority[k] = "@"
      BY <1>2, <1>6, <2>3 DEF Positions
    <3>2. k - at \in 1..Len(Host) /\ at + (k - at) = k BY <1>2, <1>3, <3>1
    <3>3. Host[k - at] = "@" BY <1>6, <3>1, <3>2
    <3> QED BY <3>2, <3>3, PlainTexts
  <2> HIDE DEF S, at
  <2> QED BY <2>1, <2>2, <2>3, GreatestIs
<1> QED BY <1>5, <1>8, <1>9 DEF authority, info

\* Where there is no userinfo, and no @.
LEMMA NoAt ==
  /\ <<>> \o Host = Host
  /\ Max(Positions(Host, {"@"}) \cup {0}) = 0
  /\ Upto(Host, 0) = <<>>
  /\ After(Host, 0) = Host
<1>1. Host \in Seq(UrlCharacters) BY PlainTexts DEF Url
<1>2. Positions(Host, {"@"}) = {} BY PlainTexts DEF Positions
<1>3. Max({0}) = 0
  <2> DEFINE S == {0}
  <2>1. S \in SUBSET Nat /\ 0 \in S /\ \A n \in S : n <= 0 OBVIOUS
  <2> HIDE DEF S
  <2>2. Max(S) = 0 BY <2>1, GreatestIs
  <2> QED BY <2>2 DEF S
<1>4. {} \cup {0} = {0} OBVIOUS
<1>5. SubSeq(Host, 1, 0 - 1) = <<>> BY SubSeqEmpty
<1>6. 0 + 1 = 1 /\ SubSeq(Host, 1, Len(Host)) = Host BY <1>1, SubSeqFull
<1> QED BY <1>1, <1>2, <1>3, <1>4, <1>5, <1>6 DEF Upto, After

\* The first colon of what is before the @ ends the user.
LEMMA ColonEnds ==
  ASSUME NEW user \in Seq(Quoted), NEW password \in Seq(Quoted)
  PROVE  LET info == (user \o <<":">>) \o password
         IN  /\ info \in Url /\ \A i \in 1..Len(info) : info[i] \notin Ends
             /\ Upto(info, FirstOf(info, {":"})) = user
             /\ After(info, FirstOf(info, {":"})) = password
<1> DEFINE C == Quoted \cup {":"}
           info == (user \o <<":">>) \o password
           r == <<":">> \o password
<1>1. /\ user \in Seq(C) /\ password \in Seq(C) /\ ":" \in C /\ <<":">> \in Seq(C)
  <2>1. Quoted \subseteq C /\ ":" \in C OBVIOUS
  <2> HIDE DEF C
  <2> QED BY <2>1, SeqMonotonic
<1>2. /\ C \subseteq UrlCharacters /\ C \cap Ends = {}
  BY DEF Quoted, Reserved, Ends, UrlCharacters
<1>3. \A i \in 1..Len(user) : user[i] \notin {":"}
  <2>1. \A i \in 1..Len(user) : user[i] \in Quoted BY ElementOfSeq
  <2> QED BY <2>1 DEF Quoted, Reserved
<1> HIDE DEF C
<1>4. info = user \o r
  <2> DEFINE colon == <<":">>
  <2>1. info = Cat(Cat(user, colon), password) BY Zenon DEF Cat
  <2>2. colon \in Seq(C) BY <1>1
  <2> HIDE DEF info, colon
  <2>3. info = Cat(user, Cat(colon, password)) BY <1>1, <2>1, <2>2, CatIs
  <2> QED BY <2>3, Zenon DEF Cat, colon
<1>5. r \in Seq(C) /\ r[1] \in {":"} BY <1>1
<1>6. After(user \o r, Len(user) + 1) = password BY <1>1, RestAfter
<1>7. info \in Seq(C) BY <1>1
<1>8. /\ info \in Url /\ \A i \in 1..Len(info) : info[i] \notin Ends
  <2>1. info \in Url BY <1>2, <1>7, SeqMonotonic DEF Url
  <2>2. \A i \in 1..Len(info) : info[i] \in C BY <1>7, ElementOfSeq
  <2> QED BY <1>2, <2>1, <2>2
<1> HIDE DEF info, r
<1>9. FirstOf(user \o r, {":"}) = Len(user) + 1 /\ Upto(user \o r, Len(user) + 1) = user
  BY <1>1, <1>3, <1>5, CutAt
<1> QED BY <1>4, <1>6, <1>8, <1>9 DEF info

\* What is read where there is userinfo, and where there is none.
LEMMA ReadBuilt ==
  ASSUME NEW user \in Url, NEW password \in Url, NEW query \in {<<>>, <<"?", "s">>}
  PROVE  ReadUrl(Built(Quote(user), Quote(password), Database, query))
           = [user |-> user, password |-> password, host |-> Host, database |-> Database]
<1> DEFINE i == (Quote(user) \o <<":">>) \o Quote(password)
           info == i \o <<"@">>
           authority == info \o Host
           text == info \o Host \o <<"/">> \o Database \o query
<1>1. Quote(user) \in Seq(Quoted) /\ Quote(password) \in Seq(Quoted) BY QuoteType
<1>2. Quote(password) # NoUrl
  <2>1. Quoted \subseteq UrlCharacters BY DEF Quoted, UrlCharacters
  <2>2. Quote(password) \in Seq(UrlCharacters) BY <1>1, <2>1, SeqMonotonic
  <2> QED BY <2>2, NoUrlAssumption
<1>3. Built(Quote(user), Quote(password), Database, query) = text BY <1>2 DEF Built
<1>4. /\ i \in Url /\ \A n \in 1..Len(i) : i[n] \notin Ends
      /\ Upto(i, FirstOf(i, {":"})) = Quote(user)
      /\ After(i, FirstOf(i, {":"})) = Quote(password)
  BY <1>1, ColonEnds
<1> HIDE DEF i
<1>5. info \in Url /\ \A n \in 1..Len(info) : info[n] \notin Ends
  <2>1. "@" \in UrlCharacters /\ "@" \notin Ends BY DEF UrlCharacters, Ends
  <2> QED BY <1>4, <2>1 DEF Url
<1> HIDE DEF info
<1>6. /\ FirstOf(text, Ends) = Len(authority) + 1
      /\ Upto(text, Len(authority) + 1) = authority
      /\ After(text, Len(authority) + 1) = Database \o query
      /\ Upto(Database \o query, FirstOf(Database \o query, {"?", "#"})) = Database
  BY <1>5, Parts
<1>7. /\ Max(Positions(authority, {"@"}) \cup {0}) = Len(i) + 1
      /\ Upto(authority, Len(i) + 1) = i
      /\ After(authority, Len(i) + 1) = Host
  BY <1>4, LastAt DEF info
<1>8. Unquote(Quote(user)) = user /\ Unquote(Quote(password)) = password BY UnquoteQuote
<1> HIDE DEF text, authority
<1>9. ReadUrl(text) = [user |-> user, password |-> password, host |-> Host, database |-> Database]
  BY <1>4, <1>6, <1>7, <1>8 DEF ReadUrl, Ends
<1> QED BY <1>3, <1>9

LEMMA ReadUnnamed ==
  ASSUME NEW query \in {<<>>, <<"?", "s">>}
  PROVE  ReadUrl(Built(<<>>, NoUrl, Database, query))
           = [user |-> <<>>, password |-> <<>>, host |-> Host, database |-> Database]
<1> DEFINE text == <<>> \o Host \o <<"/">> \o Database \o query
           none == <<>>
<1>1. Built(<<>>, NoUrl, Database, query) = text BY DEF Built
<1>2. /\ FirstOf(text, Ends) = Len(Host) + 1
      /\ Upto(text, Len(Host) + 1) = Host
      /\ After(text, Len(Host) + 1) = Database \o query
      /\ Upto(Database \o query, FirstOf(Database \o query, {"?", "#"})) = Database
  <2>1. none \in Url /\ \A n \in 1..Len(none) : none[n] \notin Ends BY DEF Url
  <2> QED BY <2>1, Parts, NoAt
<1>3. /\ Upto(none, FirstOf(none, {":"})) = <<>>
      /\ After(none, FirstOf(none, {":"})) = <<>>
  <2>1. \A n \in Nat : SubSeq(none, 1, n - 1) = <<>> \/ n > 1 OBVIOUS
  <2>2. FirstOf(none, {":"}) = 1
    <3> DEFINE S == {1}
    <3>1. Positions(none, {":"}) \cup {Len(none) + 1} = S BY DEF Positions
    <3>2. S \in SUBSET Nat /\ 1 \in S /\ \A n \in S : 1 <= n OBVIOUS
    <3> HIDE DEF S
    <3>3. Min(S) = 1 BY <3>2, LeastIs
    <3> QED BY <3>1, <3>3 DEF FirstOf
  <2>3. SubSeq(none, 1, 1 - 1) = <<>> /\ SubSeq(none, 1 + 1, Len(none)) = <<>>
    BY SubSeqEmpty
  <2> QED BY <2>2, <2>3 DEF Upto, After
<1>4. Unquote(<<>>) = <<>>
  <2>1. <<>> \in Url BY DEF Url
  <2> QED BY <2>1, UnquoteQuote, QuoteEmpty
<1> HIDE DEF text
<1>5. ReadUrl(text) = [user |-> <<>>, password |-> <<>>, host |-> Host, database |-> Database]
  BY <1>2, <1>3, <1>4, NoAt DEF ReadUrl, Ends
<1> QED BY <1>1, <1>5

-----------------------------------------------------------------------------
(* The settings that were given are those of the URL *)

Dsn(s) == IF s.scheme = "postgresql" THEN PostgresDsn(s) ELSE RedisDsn(s)

UrlInv ==
  /\ settings = NoUrl => url = NoUrl
  /\ settings # NoUrl => settings \in Settings
  /\ url # NoUrl => url = Dsn(settings)

LEMMA UrlNextInv == UrlInv /\ [UrlNext]_urlVars => UrlInv'
BY DEF UrlInv, UrlNext, Load, Assemble, Dsn, urlVars

LEMMA DsnReads ==
  ASSUME NEW s \in Settings
  PROVE  ReadUrl(Dsn(s)) = [user |-> s.user,
                            password |-> IF s.password = NoUrl THEN <<>> ELSE s.password,
                            host |-> Host, database |-> Database]
<1>1. Passwords \subseteq Url /\ BoundedSeq(Characters, MaxUser) \subseteq Url
  <2>1. \A n : BoundedSeq(Characters, n) \subseteq Seq(Characters) BY DEF BoundedSeq, SeqOf
  <2>2. Seq(Characters) \subseteq Url
    <3>1. Characters \subseteq UrlCharacters BY DEF UrlCharacters
    <3> QED BY <3>1, SeqMonotonic DEF Url
  <2> QED BY <2>1, <2>2 DEF Passwords
<1>2. NoUrl \notin Url /\ <<>> \in Url BY NoUrlAssumption DEF Url
<1>3. CASE s.scheme = "postgresql"
  <2>1. s.user \in Url /\ s.password \in Url BY <1>1, <1>3 DEF Settings
  <2>2. Dsn(s) = Built(Quote(s.user), Quote(s.password), Database, <<"?", "s">>)
    BY <1>3 DEF Dsn, PostgresDsn
  <2> QED BY <1>2, <2>1, <2>2, ReadBuilt
<1>4. CASE s.scheme # "postgresql"
  <2>1. s.user = <<>> /\ s.password \in Url \cup {NoUrl} BY <1>1, <1>4 DEF Settings
  <2>2. Dsn(s) = RedisDsn(s) BY <1>4 DEF Dsn
  <2>3. CASE s.password \in {NoUrl, <<>>}
    <3>1. Dsn(s) = Built(<<>>, NoUrl, Database, <<>>) BY <2>2, <2>3 DEF RedisDsn
    <3>2. (IF s.password = NoUrl THEN <<>> ELSE s.password) = <<>> BY <2>3
    <3> QED BY <2>1, <3>1, <3>2, ReadUnnamed
  <2>4. CASE s.password \notin {NoUrl, <<>>}
    <3>1. Dsn(s) = Built(Quote(<<>>), Quote(s.password), Database, <<>>)
      BY <2>2, <2>4, QuoteEmpty DEF RedisDsn
    <3>2. s.password \in Url /\ s.password # NoUrl BY <2>1, <2>4
    <3> QED BY <1>2, <2>1, <3>1, <3>2, ReadBuilt
  <2> QED BY <2>3, <2>4
<1> QED BY <1>3, <1>4

\* The driver reads, from the URL the settings were put into, exactly those
\* settings: for every user, every password and every separator in them.
THEOREM CredentialsReachTheDriver == UrlSpec => []CredentialsSurvive
<1>1. UrlInit => UrlInv BY DEF UrlInit, UrlInv
<1>2. UrlInv /\ [UrlNext]_urlVars => UrlInv' BY UrlNextInv
<1>3. UrlInv => CredentialsSurvive BY DsnReads DEF UrlInv, CredentialsSurvive
<1> QED BY <1>1, <1>2, <1>3, PTL DEF UrlSpec
=============================================================================
