-------------------------- MODULE EncodingLemmas --------------------------
(***************************************************************************)
(* What the operators of Encoding return, for texts and bytes of any       *)
(* length: texts come back from their UTF-8 and stay what they are in a    *)
(* field they fit, names come back from their joined form, and numbers     *)
(* from their bytes.                                                       *)
(*                                                                         *)
(* The operators are recursive functions.  What a recursive function is at *)
(* n follows from what it is at n - 1 as soon as a function with that      *)
(* property is known to exist, and the set of the numbers up to which one  *)
(* exists is closed under successor; so induction is over a set of         *)
(* numbers that has no least number outside of it.                         *)
(***************************************************************************)
EXTENDS Encoding, SequenceTheorems, FiniteSetTheorems, WellFoundedInduction, TLAPS

\* A set of numbers has a least one.
LEMMA LeastNatural == ASSUME NEW T \in SUBSET Nat, T # {}
               PROVE \E n \in T : \A m \in T : n <= m
<1> DEFINE R == {p \in Nat \X Nat : p[1] < p[2]}
<1>1. OpToRel(<, Nat) = R
  BY DEF OpToRel
<1>2. IsWellFoundedOn(R, Nat)
  BY <1>1, NatLessThanWellFounded
<1>3. \E x \in T : \A y \in T : ~(<<y, x>> \in R)
  <2> HIDE DEF R
  <2> QED
   BY <1>2, WFMin
<1>4. PICK x \in T : \A y \in T : ~(<<y, x>> \in R)
  BY <1>3
<1>5. ASSUME NEW y \in T PROVE x <= y
  <2>1. x \in Nat /\ y \in Nat
    OBVIOUS
  <2>2. ~(<<y, x>> \in R)
    BY <1>4
  <2>3. ~(y < x)
    BY <2>1, <2>2
  <2> QED
    BY <2>1, <2>3
<1> QED
  BY <1>5

LEMMA Induction ==
    ASSUME NEW T \in SUBSET Nat, 0 \in T, \A n \in T : n + 1 \in T
    PROVE  \A n \in Nat : n \in T
<1> SUFFICES ASSUME NEW n \in Nat, n \notin T PROVE FALSE
  OBVIOUS
<1> DEFINE U == Nat \ T
<1>1. PICK m \in U : \A i \in U : m <= i
  <2>1. U \in SUBSET Nat /\ U # {}
    OBVIOUS
  <2> HIDE DEF U
  <2> QED
    BY <2>1, LeastNatural
<1>2. m \in Nat /\ m \notin T /\ m # 0
  BY <1>1
<1>3. m - 1 \in Nat /\ ~(m <= m - 1) /\ (m - 1) + 1 = m
  BY <1>2
<1>4. m - 1 \in T
  BY <1>1, <1>3
<1> QED
  BY <1>2, <1>3, <1>4
-----------------------------------------------------------------------------
(***************************************************************************)
(* Concat.  f[i] is the first i of them, one after the other.              *)
(***************************************************************************)
Cat(s, t) == s \o t

LEMMA CatType ==
    ASSUME NEW S, NEW s \in Seq(S), NEW t \in Seq(S)
    PROVE  Cat(s, t) \in Seq(S)
BY DEF Cat

LEMMA CatFacts ==
    ASSUME NEW S, NEW s \in Seq(S), NEW t \in Seq(S)
    PROVE  /\ Len(s) \in Nat /\ Len(t) \in Nat
           /\ s \o t \in Seq(S) /\ Len(s \o t) = Len(s) + Len(t)
           /\ \A i \in 1 .. Len(s) : (s \o t)[i] = s[i]
           /\ \A i \in 1 .. Len(t) : (s \o t)[Len(s) + i] = t[i]
OBVIOUS

LEMMA CatEmpty ==
    ASSUME NEW S, NEW s \in Seq(S)
    PROVE  Cat(s, << >>) = s /\ Cat(<< >>, s) = s
BY DEF Cat

LEMMA CatAssociative ==
    ASSUME NEW S, NEW l \in Seq(S), NEW m \in Seq(S), NEW n \in Seq(S)
    PROVE  Cat(Cat(l, m), n) = Cat(l, Cat(m, n))
BY SMTT(30) DEF Cat

LEMMA CatCancel ==
    ASSUME NEW S, NEW l \in Seq(S), NEW m \in Seq(S), NEW n \in Seq(S),
           Cat(l, m) = Cat(l, n)
    PROVE  m = n
BY ConcatSimplifications DEF Cat

Sums(f, seqs, S) ==
    /\ seqs \in Seq(Seq(S)) /\ f \in [0 .. Len(seqs) -> Seq(S)] /\ f[0] = << >>
    /\ \A i \in 1 .. Len(seqs) : f[i] = Cat(f[i - 1], seqs[i])

LEMMA SumsMeans ==
    ASSUME NEW S, NEW seqs, NEW f, Sums(f, seqs, S)
    PROVE  /\ Len(seqs) \in Nat /\ seqs \in Seq(Seq(S)) /\ f[0] = << >>
           /\ \A i \in 0 .. Len(seqs) : f[i] \in Seq(S)
           /\ \A i \in 1 .. Len(seqs) : seqs[i] \in Seq(S) /\ f[i] = Cat(f[i - 1], seqs[i])
<1>1. seqs \in Seq(Seq(S)) /\ f \in [0 .. Len(seqs) -> Seq(S)]
  BY DEF Sums
<1>2. Len(seqs) \in Nat /\ \A i \in 1 .. Len(seqs) : seqs[i] \in Seq(S)
  BY <1>1
<1>3. \A i \in 0 .. Len(seqs) : f[i] \in Seq(S)
  BY <1>1
<1> QED
  BY <1>1, <1>2, <1>3 DEF Sums

LEMMA SumsExist ==
    ASSUME NEW S, NEW seqs \in Seq(Seq(S))
    PROVE  \E f : Sums(f, seqs, S)
<1> DEFINE Upto(n) == \E f \in [0 .. n -> Seq(S)] :
                          /\ f[0] = << >>
                          /\ \A i \in 1 .. n : f[i] = Cat(f[i - 1], seqs[i])
           P(n) == n <= Len(seqs) => Upto(n)
<1>1. Len(seqs) \in Nat /\ \A i \in 1 .. Len(seqs) : seqs[i] \in Seq(S)
  OBVIOUS
<1>2. P(0)
  <2> DEFINE f == [i \in 0 .. 0 |-> << >>]
  <2>1. f \in [0 .. 0 -> Seq(S)] /\ f[0] = << >>
    OBVIOUS
  <2>2. 1 .. 0 = {}
    OBVIOUS
  <2> QED
    BY <2>1, <2>2
<1>3. ASSUME NEW n \in Nat, P(n) PROVE P(n + 1)
  <2> SUFFICES ASSUME n + 1 <= Len(seqs) PROVE Upto(n + 1)
    OBVIOUS
  <2>1. n \in Nat /\ n <= Len(seqs) /\ n + 1 \in 1 .. Len(seqs)
    BY <1>1
  <2>2. PICK f \in [0 .. n -> Seq(S)] :
            /\ f[0] = << >>
            /\ \A i \in 1 .. n : f[i] = Cat(f[i - 1], seqs[i])
    <3>1. Upto(n)
      <4> HIDE DEF Upto
      <4> QED
        BY <1>3, <2>1
    <3> QED
      BY <3>1
  <2> DEFINE g == [i \in 0 .. n + 1 |-> IF i = n + 1 THEN Cat(f[n], seqs[n + 1]) ELSE f[i]]
  <2>3. Cat(f[n], seqs[n + 1]) \in Seq(S)
    <3>1. f[n] \in Seq(S) /\ seqs[n + 1] \in Seq(S)
      BY <1>1, <2>1
    <3> QED
      BY <3>1, CatType
  <2>4. g \in [0 .. n + 1 -> Seq(S)] /\ g[0] = << >>
    BY <2>1, <2>2, <2>3
  <2>5. ASSUME NEW i \in 1 .. n + 1 PROVE g[i] = Cat(g[i - 1], seqs[i])
    <3>1. CASE i = n + 1
      <4>1. i - 1 = n /\ n \in 0 .. n + 1 /\ n # n + 1 /\ i \in 0 .. n + 1
        BY <2>1, <3>1
      <4> QED
        BY <3>1, <4>1
    <3>2. CASE i # n + 1
      <4>1. i \in 1 .. n /\ i \in 0 .. n + 1 /\ i - 1 \in 0 .. n + 1 /\ i - 1 # n + 1
        BY <2>1, <3>2
      <4> QED
        BY <2>2, <3>2, <4>1
    <3> QED
      BY <3>1, <3>2
  <2> HIDE DEF g
  <2> QED
    BY <2>4, <2>5
<1>4. \A n \in Nat : P(n)
  <2> DEFINE T == {n \in Nat : P(n)}
  <2> HIDE DEF P
  <2>1. T \in SUBSET Nat /\ 0 \in T /\ \A n \in T : n + 1 \in T
    BY <1>2, <1>3
  <2>2. \A n \in Nat : n \in T
    <3> HIDE DEF T
    <3> QED
      BY <2>1, Induction
  <2> QED
    BY <2>2
<1>5. Upto(Len(seqs))
  <2> HIDE DEF Upto
  <2> QED
    BY <1>1, <1>4
<1> QED
  BY <1>5 DEF Sums

LEMMA Between ==
    ASSUME NEW S, NEW seqs, NEW f, Sums(f, seqs, S), NEW i \in 0 .. Len(seqs), NEW j \in i .. Len(seqs)
    PROVE  \E d \in Seq(S) : f[j] = Cat(f[i], d)
<1> DEFINE Has(n) == \E d \in Seq(S) : f[i + n] = Cat(f[i], d)
           P(n) == i + n <= Len(seqs) => Has(n)
<1>0. /\ Len(seqs) \in Nat /\ i \in Nat /\ j \in Nat /\ f[i] \in Seq(S)
      /\ \A k \in 1 .. Len(seqs) : seqs[k] \in Seq(S) /\ f[k] = Cat(f[k - 1], seqs[k])
  BY SumsMeans
<1>1. P(0)
  <2>1. i + 0 = i /\ f[i] = Cat(f[i], << >>) /\ << >> \in Seq(S)
    BY <1>0, CatEmpty
  <2> QED
    BY <2>1
<1>2. ASSUME NEW n \in Nat, P(n) PROVE P(n + 1)
  <2> SUFFICES ASSUME i + (n + 1) <= Len(seqs)
               PROVE  \E d \in Seq(S) : f[i + (n + 1)] = Cat(f[i], d)
    OBVIOUS
  <2>1. /\ n \in Nat /\ i + n <= Len(seqs) /\ i + (n + 1) \in 1 .. Len(seqs)
        /\ (i + (n + 1)) - 1 = i + n
    BY <1>0
  <2>2. PICK d \in Seq(S) : f[i + n] = Cat(f[i], d)
    <3>1. Has(n)
      <4> HIDE DEF Has
      <4> QED
        BY <1>2, <2>1
    <3> QED
      BY <3>1
  <2> DEFINE e == seqs[i + (n + 1)]
  <2>3. e \in Seq(S)
    BY <1>0, <2>1
  <2>4. f[i + (n + 1)] = Cat(Cat(f[i], d), e)
    BY <1>0, <2>1, <2>2
  <2> HIDE DEF e
  <2>5. Cat(Cat(f[i], d), e) = Cat(f[i], Cat(d, e))
    BY <1>0, <2>3, CatAssociative
  <2>6. Cat(d, e) \in Seq(S)
    BY <2>3, CatType
  <2> QED
    BY <2>4, <2>5, <2>6
<1>3. \A n \in Nat : P(n)
  <2> DEFINE T == {n \in Nat : P(n)}
  <2> HIDE DEF P
  <2>1. T \in SUBSET Nat /\ 0 \in T /\ \A n \in T : n + 1 \in T
    BY <1>1, <1>2
  <2>2. \A n \in Nat : n \in T
    <3> HIDE DEF T
    <3> QED
      BY <2>1, Induction
  <2> QED
    BY <2>2
<1>4. j - i \in Nat /\ i + (j - i) = j /\ i + (j - i) <= Len(seqs)
  BY <1>0
<1> QED
  BY <1>3, <1>4
Halves(g, seqs) ==
    [r \in (1 .. Len(seqs) + 1) \X (0 .. Len(seqs)) |->
        IF r[1] > r[2] THEN << >>
        ELSE IF r[1] = r[2] THEN seqs[r[1]]
        ELSE LET middle == (r[1] + r[2]) \div 2
             IN  g[<<r[1], middle>>] \o g[<<middle + 1, r[2]>>]]

LEMMA MiddleBetween ==
    ASSUME NEW a \in Int, NEW b \in Int, a < b
    PROVE  (a + b) \div 2 \in a .. b - 1
OBVIOUS

LEMMA HalvesFixed ==
    ASSUME NEW S, NEW seqs, NEW f, Sums(f, seqs, S)
    PROVE  \E g : g = Halves(g, seqs)
<1> DEFINE D == (1 .. Len(seqs) + 1) \X (0 .. Len(seqs))
           Part(a, b) == IF a > b THEN << >>
                         ELSE CHOOSE d \in Seq(S) : f[b] = Cat(f[a - 1], d)
           g == [r \in D |-> Part(r[1], r[2])]
<1>0. /\ Len(seqs) \in Nat /\ f[0] = << >>
      /\ \A i \in 0 .. Len(seqs) : f[i] \in Seq(S)
      /\ \A i \in 1 .. Len(seqs) : seqs[i] \in Seq(S) /\ f[i] = Cat(f[i - 1], seqs[i])
  BY SumsMeans
<1>1. ASSUME NEW a \in 1 .. Len(seqs) + 1, NEW b \in 0 .. Len(seqs)
      PROVE  <<a, b>> \in D /\ g[<<a, b>>] = Part(a, b)
  <2>1. <<a, b>> \in D /\ <<a, b>>[1] = a /\ <<a, b>>[2] = b
    OBVIOUS
  <2> HIDE DEF D, Part
  <2> QED
    BY <2>1
<1>2. ASSUME NEW a \in 1 .. Len(seqs) + 1, NEW b \in 0 .. Len(seqs), a <= b
      PROVE  g[<<a, b>>] \in Seq(S) /\ f[b] = Cat(f[a - 1], g[<<a, b>>])
  <2>1. \E d \in Seq(S) : f[b] = Cat(f[a - 1], d)
    <3> DEFINE c == a - 1
    <3>1. c \in 0 .. Len(seqs) /\ b \in c .. Len(seqs)
      BY <1>0, <1>2
    <3> HIDE DEF c
    <3>2. \E d \in Seq(S) : f[b] = Cat(f[c], d)
      BY <3>1, Between
    <3> QED
      BY <3>2 DEF c
  <2>2. ~(a > b)
    BY <1>0, <1>2
  <2> QED
    BY <1>1, <2>1, <2>2
<1> HIDE DEF g
<1>3. ASSUME NEW a \in 1 .. Len(seqs) + 1, NEW b \in 0 .. Len(seqs)
      PROVE  g[<<a, b>>] = Halves(g, seqs)[<<a, b>>]
  <2>0. Halves(g, seqs)[<<a, b>>] =
            IF a > b THEN << >>
            ELSE IF a = b THEN seqs[a]
            ELSE Cat(g[<<a, (a + b) \div 2>>], g[<<(a + b) \div 2 + 1, b>>])
    BY <1>1 DEF Halves, Cat
  <2>1. CASE a > b
    BY <1>1, <2>0, <2>1
  <2>2. CASE a = b
    <3>0. a \in 1 .. Len(seqs) /\ a <= b /\ ~(a > b) /\ a - 1 \in 0 .. Len(seqs)
      BY <1>0, <2>2
    <3>1. /\ a \in 1 .. Len(seqs) /\ a <= b /\ ~(a > b)
          /\ f[a - 1] \in Seq(S) /\ seqs[a] \in Seq(S)
      BY <1>0, <3>0
    <3>2. f[b] = Cat(f[a - 1], g[<<a, b>>]) /\ g[<<a, b>>] \in Seq(S)
      BY <1>2, <3>1
    <3>3. f[b] = Cat(f[a - 1], seqs[a])
      BY <1>0, <2>2, <3>1
    <3>4. g[<<a, b>>] = seqs[a]
      BY <3>1, <3>2, <3>3, CatCancel
    <3> QED
      BY <2>0, <2>2, <3>1, <3>4
  <2>3. CASE a < b
    <3> DEFINE m == (a + b) \div 2
    <3>1. m \in a .. b - 1
      BY <1>0, <2>3, MiddleBetween
    <3> HIDE DEF m
    <3>2. /\ m \in 0 .. Len(seqs) /\ a <= m /\ m + 1 \in 1 .. Len(seqs) + 1 /\ m + 1 <= b
          /\ (m + 1) - 1 = m /\ a <= b /\ ~(a > b) /\ a # b /\ a - 1 \in 0 .. Len(seqs)
      BY <1>0, <2>3, <3>1
    <3>3. /\ g[<<a, m>>] \in Seq(S) /\ f[m] = Cat(f[a - 1], g[<<a, m>>])
          /\ g[<<m + 1, b>>] \in Seq(S) /\ f[b] = Cat(f[m], g[<<m + 1, b>>])
          /\ g[<<a, b>>] \in Seq(S) /\ f[b] = Cat(f[a - 1], g[<<a, b>>])
      BY <1>2, <3>2
    <3>5. f[a - 1] \in Seq(S)
      BY <1>0, <3>2
    <3>6. g[<<a, b>>] = Cat(g[<<a, m>>], g[<<m + 1, b>>])
      <4> DEFINE u == f[a - 1]
                 x == g[<<a, m>>]
                 y == g[<<m + 1, b>>]
                 z == g[<<a, b>>]
      <4>1. /\ u \in Seq(S) /\ x \in Seq(S) /\ y \in Seq(S) /\ z \in Seq(S)
            /\ f[m] = Cat(u, x) /\ f[b] = Cat(f[m], y) /\ f[b] = Cat(u, z)
        BY <3>3, <3>5
      <4> HIDE DEF u, x, y, z
      <4>0. u \in Seq(S) /\ x \in Seq(S) /\ y \in Seq(S)
        BY <4>1
      <4>2. Cat(Cat(u, x), y) = Cat(u, Cat(x, y))
        BY <4>0, CatAssociative
      <4>3. Cat(x, y) \in Seq(S)
        BY <4>1, CatType
      <4>4. z = Cat(x, y)
        BY <4>1, <4>2, <4>3, CatCancel
      <4> QED
        BY <4>4 DEF x, y, z
    <3> QED
      BY <2>0, <3>2, <3>6 DEF m
  <2> QED
    BY <1>0, <2>1, <2>2, <2>3
<1>4. g = Halves(g, seqs)
  <2>1. g = [r \in D |-> g[r]] /\ Halves(g, seqs) = [r \in D |-> Halves(g, seqs)[r]]
    BY DEF g, Halves
  <2>2. ASSUME NEW r \in D PROVE g[r] = Halves(g, seqs)[r]
    <3>1. r = <<r[1], r[2]>> /\ r[1] \in 1 .. Len(seqs) + 1 /\ r[2] \in 0 .. Len(seqs)
      OBVIOUS
    <3> QED
      BY <1>3, <3>1
  <2> QED
    BY <2>1, <2>2
<1> QED
  BY <1>4

LEMMA HalvesRight ==
    ASSUME NEW S, NEW seqs, NEW f, Sums(f, seqs, S), NEW g, g = Halves(g, seqs)
    PROVE  \A a \in 1 .. Len(seqs) + 1, b \in 0 .. Len(seqs) :
               a <= b => g[<<a, b>>] \in Seq(S) /\ f[b] = Cat(f[a - 1], g[<<a, b>>])
<1> DEFINE Right(a, b) == g[<<a, b>>] \in Seq(S) /\ f[b] = Cat(f[a - 1], g[<<a, b>>])
           P(n) == \A a \in 1 .. Len(seqs) + 1, b \in 0 .. Len(seqs) :
                       a <= b /\ b - a <= n => Right(a, b)
<1>0. /\ Len(seqs) \in Nat /\ f[0] = << >>
      /\ \A i \in 0 .. Len(seqs) : f[i] \in Seq(S)
      /\ \A i \in 1 .. Len(seqs) : seqs[i] \in Seq(S) /\ f[i] = Cat(f[i - 1], seqs[i])
  BY SumsMeans
<1>1. ASSUME NEW a \in 1 .. Len(seqs) + 1, NEW b \in 0 .. Len(seqs)
      PROVE  g[<<a, b>>] =
                IF a > b THEN << >>
                ELSE IF a = b THEN seqs[a]
                ELSE Cat(g[<<a, (a + b) \div 2>>], g[<<(a + b) \div 2 + 1, b>>])
  <2>1. g[<<a, b>>] = Halves(g, seqs)[<<a, b>>]
    OBVIOUS
  <2> QED
    BY <2>1 DEF Halves, Cat
<1>2. ASSUME NEW a \in 1 .. Len(seqs) + 1, NEW b \in 0 .. Len(seqs), a = b
      PROVE  Right(a, b)
  <2>1. a \in 1 .. Len(seqs) /\ ~(a > b) /\ seqs[a] \in Seq(S)
    BY <1>0, <1>2
  <2>2. f[b] = Cat(f[a - 1], seqs[a])
    BY <1>0, <1>2, <2>1
  <2> QED
    BY <1>1, <1>2, <2>1, <2>2
<1>3. P(0)
  <2> SUFFICES ASSUME NEW a \in 1 .. Len(seqs) + 1, NEW b \in 0 .. Len(seqs),
                      a <= b, b - a <= 0
               PROVE  Right(a, b)
    OBVIOUS
  <2>1. a = b
    BY <1>0
  <2> QED
    BY <1>2, <2>1
<1>4. ASSUME NEW n \in Nat, P(n) PROVE P(n + 1)
  <2> SUFFICES ASSUME NEW a \in 1 .. Len(seqs) + 1, NEW b \in 0 .. Len(seqs),
                      a <= b, b - a <= n + 1
               PROVE  Right(a, b)
    OBVIOUS
  <2>1. CASE a = b
    BY <1>2, <2>1
  <2>2. CASE a < b
    <3> DEFINE m == (a + b) \div 2
    <3>1. m \in a .. b - 1
      BY <1>0, <2>2, MiddleBetween
    <3> HIDE DEF m
    <3>2. /\ m \in 0 .. Len(seqs) /\ a <= m /\ m + 1 \in 1 .. Len(seqs) + 1 /\ m + 1 <= b
          /\ (m + 1) - 1 = m /\ ~(a > b) /\ a # b /\ m - a <= n /\ b - (m + 1) <= n
      BY <1>0, <2>2, <3>1
    <3>3. Right(a, m) /\ Right(m + 1, b)
      <4> HIDE DEF Right
      <4> QED
        BY <1>4, <3>2
    <3>4. /\ Cat(g[<<a, m>>], g[<<m + 1, b>>]) \in Seq(S)
          /\ f[b] = Cat(f[a - 1], Cat(g[<<a, m>>], g[<<m + 1, b>>]))
      <4> DEFINE u == f[a - 1]
                 x == g[<<a, m>>]
                 y == g[<<m + 1, b>>]
      <4>0. a - 1 \in 0 .. Len(seqs)
        BY <1>0
      <4>1. /\ u \in Seq(S) /\ x \in Seq(S) /\ y \in Seq(S)
            /\ f[m] = Cat(u, x) /\ f[b] = Cat(f[m], y)
        BY <1>0, <3>2, <3>3, <4>0
      <4> HIDE DEF u, x, y
      <4>2. Cat(Cat(u, x), y) = Cat(u, Cat(x, y))
        BY <4>1, CatAssociative
      <4>3. Cat(x, y) \in Seq(S)
        BY <4>1, CatType
      <4> QED
        BY <4>1, <4>2, <4>3 DEF u, x, y
    <3>5. g[<<a, b>>] = Cat(g[<<a, m>>], g[<<m + 1, b>>])
      BY <1>1, <3>2 DEF m
    <3> QED
      BY <3>4, <3>5
  <2> QED
    BY <1>0, <2>1, <2>2
<1>5. \A n \in Nat : P(n)
  <2> DEFINE T == {n \in Nat : P(n)}
  <2> HIDE DEF P
  <2>1. T \in SUBSET Nat /\ 0 \in T /\ \A n \in T : n + 1 \in T
    BY <1>3, <1>4
  <2>2. \A n \in Nat : n \in T
    <3> HIDE DEF T
    <3> QED
      BY <2>1, Induction
  <2> QED
    BY <2>2
<1>6. ASSUME NEW a \in 1 .. Len(seqs) + 1, NEW b \in 0 .. Len(seqs), a <= b
      PROVE  Right(a, b)
  <2>1. b - a \in Nat /\ b - a <= b - a
    BY <1>0, <1>6
  <2>2. P(b - a)
    BY <1>5, <2>1
  <2> HIDE DEF Right
  <2> QED
    BY <1>6, <2>1, <2>2
<1> QED
  BY <1>6

LEMMA ConcatAdds ==
    ASSUME NEW S, NEW seqs, NEW f, Sums(f, seqs, S)
    PROVE  Concat(seqs) = f[Len(seqs)]
<1> DEFINE g == CHOOSE h : h = Halves(h, seqs)
<1>0. Len(seqs) \in Nat /\ f[0] = << >>
  BY SumsMeans
<1>1. Concat(seqs) = g[<<1, Len(seqs)>>]
  BY Zenon DEF Concat, Halves
<1>2. g = Halves(g, seqs)
  BY HalvesFixed
<1> HIDE DEF g
<1>3. CASE Len(seqs) = 0
  <2>1. g[<<1, 0>>] = Halves(g, seqs)[<<1, 0>>]
    BY <1>2
  <2>2. Halves(g, seqs)[<<1, 0>>] = << >>
    BY <1>3 DEF Halves
  <2> QED
    BY <1>0, <1>1, <1>3, <2>1, <2>2
<1>4. CASE Len(seqs) # 0
  <2> DEFINE whole == g[<<1, Len(seqs)>>]
  <2>1. 1 \in 1 .. Len(seqs) + 1 /\ Len(seqs) \in 0 .. Len(seqs) /\ 1 <= Len(seqs) /\ 1 - 1 = 0
    BY <1>0, <1>4
  <2>2. whole \in Seq(S) /\ f[Len(seqs)] = Cat(f[1 - 1], whole)
    <3>1. \A a \in 1 .. Len(seqs) + 1, b \in 0 .. Len(seqs) :
             a <= b => g[<<a, b>>] \in Seq(S) /\ f[b] = Cat(f[a - 1], g[<<a, b>>])
      BY <1>2, HalvesRight
    <3> QED
      BY <2>1, <3>1
  <2> HIDE DEF whole
  <2>3. f[Len(seqs)] = Cat(<< >>, whole)
    BY <1>0, <2>1, <2>2
  <2>4. f[Len(seqs)] = whole
    BY <2>2, <2>3, CatEmpty
  <2> QED
    BY <1>1, <2>4 DEF whole
<1> QED
  BY <1>3, <1>4
\* What one Concat has, all its sums have.
LEMMA ConcatType ==
    ASSUME NEW S, NEW seqs \in Seq(Seq(S))
    PROVE  Concat(seqs) \in Seq(S)
<1>1. PICK f : Sums(f, seqs, S)
  BY SumsExist
<1>2. Concat(seqs) = f[Len(seqs)] /\ Len(seqs) \in 0 .. Len(seqs)
  BY <1>1, ConcatAdds
<1> QED
  BY <1>1, <1>2, SumsMeans

LEMMA ConcatEmpty == Concat(<< >>) = << >>
<1>1. << >> \in Seq(Seq(Nat)) /\ Len(<< >>) = 0
  OBVIOUS
<1>2. PICK f : Sums(f, << >>, Nat)
  BY <1>1, SumsExist
<1> QED
  BY <1>1, <1>2, ConcatAdds, SumsMeans

LEMMA ConcatSingle ==
    ASSUME NEW S, NEW x \in Seq(S)
    PROVE  Concat(<<x>>) = x
<1>1. <<x>> \in Seq(Seq(S)) /\ Len(<<x>>) = 1 /\ <<x>>[1] = x
  OBVIOUS
<1>2. PICK f : Sums(f, <<x>>, S)
  BY <1>1, SumsExist
<1>3. f[0] = << >> /\ f[1] = Cat(f[1 - 1], x)
  BY <1>1, <1>2, SumsMeans
<1>4. f[1] = x
  BY <1>3, CatEmpty
<1> QED
  BY <1>1, <1>2, <1>4, ConcatAdds

LEMMA ConcatPlus ==
    ASSUME NEW S, NEW s \in Seq(Seq(S)), NEW t \in Seq(Seq(S))
    PROVE  Concat(s \o t) = Concat(s) \o Concat(t)
<1> DEFINE st == s \o t
<1>1. /\ st \in Seq(Seq(S)) /\ Len(st) = Len(s) + Len(t) /\ Len(s) \in Nat /\ Len(t) \in Nat
      /\ \A i \in 1 .. Len(s) : st[i] = s[i]
      /\ \A i \in 1 .. Len(t) : st[Len(s) + i] = t[i]
      /\ \A i \in 1 .. Len(s) : s[i] \in Seq(S)
      /\ \A i \in 1 .. Len(t) : t[i] \in Seq(S)
  OBVIOUS
<1> HIDE DEF st
<1>2. PICK f : Sums(f, st, S)
  BY <1>1, SumsExist
<1>3. PICK h : Sums(h, t, S)
  BY SumsExist
<1>4. /\ f[0] = << >> /\ \A i \in 0 .. Len(st) : f[i] \in Seq(S)
      /\ \A i \in 1 .. Len(st) : f[i] = Cat(f[i - 1], st[i])
  BY <1>2, SumsMeans
<1>5. /\ h[0] = << >> /\ \A i \in 0 .. Len(t) : h[i] \in Seq(S)
      /\ \A i \in 1 .. Len(t) : h[i] = Cat(h[i - 1], t[i])
  BY <1>3, SumsMeans
<1>6. Concat(s) = f[Len(s)]
  <2> DEFINE e == [i \in 0 .. Len(s) |-> f[i]]
  <2>1. e \in [0 .. Len(s) -> Seq(S)] /\ e[0] = << >>
    BY <1>1, <1>4
  <2>2. \A i \in 1 .. Len(s) : e[i] = Cat(e[i - 1], s[i])
    <3> TAKE i \in 1 .. Len(s)
    <3>1. i \in 0 .. Len(s) /\ i - 1 \in 0 .. Len(s) /\ i \in 1 .. Len(st)
      BY <1>1
    <3> QED
      BY <1>1, <1>4, <3>1
  <2>3. Sums(e, s, S)
    <3> HIDE DEF e
    <3> QED
      BY <2>1, <2>2 DEF Sums
  <2>4. Concat(s) = e[Len(s)]
    <3> HIDE DEF e
    <3> QED
      BY <2>3, ConcatAdds
  <2> QED
    BY <1>1, <2>4
<1> DEFINE P(n) == n <= Len(t) => f[Len(s) + n] = Cat(f[Len(s)], h[n])
<1>7. f[Len(s)] \in Seq(S)
  BY <1>1, <1>4
<1>8. P(0)
  <2>1. Len(s) + 0 = Len(s) /\ f[Len(s)] = Cat(f[Len(s)], << >>)
    BY <1>1, <1>7, CatEmpty
  <2> QED
    BY <1>5, <2>1
<1>9. ASSUME NEW n \in Nat, P(n) PROVE P(n + 1)
  <2> SUFFICES ASSUME n + 1 <= Len(t)
               PROVE  f[Len(s) + (n + 1)] = Cat(f[Len(s)], h[n + 1])
    OBVIOUS
  <2>1. /\ n + 1 \in 1 .. Len(t) /\ (n + 1) - 1 = n /\ n <= Len(t) /\ n \in 0 .. Len(t)
        /\ Len(s) + (n + 1) \in 1 .. Len(st) /\ (Len(s) + (n + 1)) - 1 = Len(s) + n
    BY <1>1
  <2>2. f[Len(s) + (n + 1)] = Cat(f[Len(s) + n], t[n + 1])
    BY <1>1, <1>4, <2>1
  <2>3. f[Len(s) + n] = Cat(f[Len(s)], h[n])
    BY <1>9, <2>1
  <2>4. h[n + 1] = Cat(h[n], t[n + 1])
    BY <1>5, <2>1
  <2>5. h[n] \in Seq(S) /\ t[n + 1] \in Seq(S)
    BY <1>1, <1>5, <2>1
  <2>6. Cat(Cat(f[Len(s)], h[n]), t[n + 1]) = Cat(f[Len(s)], Cat(h[n], t[n + 1]))
    BY <1>7, <2>5, CatAssociative
  <2> QED
    BY <2>2, <2>3, <2>4, <2>6
<1>10. \A n \in Nat : P(n)
  <2> DEFINE T == {n \in Nat : P(n)}
  <2> HIDE DEF P
  <2>1. T \in SUBSET Nat /\ 0 \in T /\ \A n \in T : n + 1 \in T
    BY <1>8, <1>9
  <2>2. \A n \in Nat : n \in T
    <3> HIDE DEF T
    <3> QED
      BY <2>1, Induction
  <2> QED
    BY <2>2
<1>11. f[Len(st)] = Cat(f[Len(s)], h[Len(t)])
  BY <1>1, <1>10
<1>12. Concat(st) = f[Len(st)] /\ Concat(t) = h[Len(t)]
  BY <1>2, <1>3, ConcatAdds
<1> QED
  BY <1>6, <1>11, <1>12 DEF st, Cat

LEMMA ConcatOfEmpty ==
    ASSUME NEW S, NEW seqs \in Seq(Seq(S)), \A i \in 1 .. Len(seqs) : seqs[i] = << >>
    PROVE  Concat(seqs) = << >>
<1> DEFINE f == [i \in 0 .. Len(seqs) |-> << >>]
<1>1. Len(seqs) \in Nat
  OBVIOUS
<1>2. << >> \in Seq(S) /\ Cat(<< >>, << >>) = << >>
  <2>1. << >> \in Seq(S)
    OBVIOUS
  <2> QED
    BY <2>1, CatEmpty
<1>3. /\ f \in [0 .. Len(seqs) -> Seq(S)] /\ f[0] = << >>
      /\ \A i \in 1 .. Len(seqs) : f[i] = << >> /\ f[i - 1] = << >>
      /\ f[Len(seqs)] = << >>
  BY <1>1
<1> HIDE DEF f
<1>4. Sums(f, seqs, S)
  BY <1>1, <1>2, <1>3 DEF Sums
<1> QED
  BY <1>3, <1>4, ConcatAdds
-----------------------------------------------------------------------------
(***************************************************************************)
(* Characters and their bytes.                                             *)
(***************************************************************************)
\* A number and its digits to the base of 64.
LEMMA Sixty ==
    ASSUME NEW n \in Nat
    PROVE  n \div 64 \in Nat /\ n % 64 \in 0 .. 63 /\ n = 64 * (n \div 64) + (n % 64)
OBVIOUS

LEMMA Quotient ==
    ASSUME NEW h \in Nat, NEW z \in 0 .. 4095, NEW c \in Nat, c = 4096 * h + z
    PROVE  c \div 4096 = h
OBVIOUS

LEMMA Digits ==
    ASSUME NEW c \in Nat
    PROVE  /\ c \div 4096 \in Nat /\ (c \div 64) % 64 \in 0 .. 63 /\ c % 64 \in 0 .. 63
           /\ c = 4096 * (c \div 4096) + 64 * ((c \div 64) % 64) + (c % 64)
           /\ c < 65536 => c \div 4096 < 16
<1> DEFINE a == c \div 64
           h == a \div 64
           m == a % 64
           l == c % 64
<1>1. a \in Nat /\ l \in 0 .. 63 /\ c = 64 * a + l
  BY Sixty
<1> HIDE DEF a, l
<1>2. h \in Nat /\ m \in 0 .. 63 /\ a = 64 * h + m
  BY <1>1, Sixty
<1> HIDE DEF h, m
<1>3. c = 4096 * h + (64 * m + l) /\ 64 * m + l \in 0 .. 4095
  BY <1>1, <1>2
<1>4. c \div 4096 = h
  <2> DEFINE z == 64 * m + l
  <2>1. c = 4096 * h + z /\ z \in 0 .. 4095
    BY <1>3
  <2>2. h \in Nat
    BY <1>2
  <2> HIDE DEF z
  <2> QED
    BY <2>1, <2>2
<1> QED
  BY <1>1, <1>2, <1>3, <1>4 DEF a, h, m, l

\* What the bytes of a character say of it.
LEMMA TwoBytes ==
    ASSUME NEW c \in Nat, c >= 128, c < 2048
    PROVE  /\ 192 + c \div 64 \in 194 .. 223 /\ (192 + c \div 64) \div 64 = 3
           /\ ((192 + c \div 64) % 32) * 64 + ((128 + (c % 64)) % 64) = c
           /\ 128 + (c % 64) \in 128 .. 191 /\ (128 + (c % 64)) \div 64 = 2
<1> DEFINE h == c \div 64
           l == c % 64
<1>1. h \in 2 .. 31 /\ l \in 0 .. 63 /\ c = 64 * h + l
  BY Sixty
<1> HIDE DEF h, l
<1>2. (192 + h) % 32 = h
  BY <1>1
<1>3. (128 + l) % 64 = l /\ (128 + l) \div 64 = 2 /\ (192 + h) \div 64 = 3
  BY <1>1
<1> QED
  BY <1>1, <1>2, <1>3 DEF h, l

LEMMA ThreeBytes ==
    ASSUME NEW c \in Char, c >= 2048,
           NEW p, NEW q, NEW r, p = 224 + c \div 4096, q = 128 + ((c \div 64) % 64), r = 128 + (c % 64)
    PROVE  /\ p \in 224 .. 239 /\ q \in 128 .. 191 /\ r \in 128 .. 191
           /\ q \div 64 = 2 /\ r \div 64 = 2 /\ p \div 64 = 3
           /\ p = 224 => q >= 160
           /\ p = 237 => q < 160
           /\ (p % 16) * 4096 + (q % 64) * 64 + (r % 64) = c
<1> DEFINE h == c \div 4096
           m == (c \div 64) % 64
           l == c % 64
<1>0. c \in Nat /\ c <= 65535 /\ ~(55296 <= c /\ c <= 57343)
  BY DEF Char
<1>1. h \in 0 .. 15 /\ m \in 0 .. 63 /\ l \in 0 .. 63 /\ c = 4096 * h + 64 * m + l
  BY <1>0, Digits
<1>2. p = 224 + h /\ q = 128 + m /\ r = 128 + l
  OBVIOUS
<1> HIDE DEF h, m, l
<1>3. p % 16 = h
  BY <1>1, <1>2
<1>4. q % 64 = m /\ r % 64 = l /\ q \div 64 = 2 /\ r \div 64 = 2 /\ p \div 64 = 3
  BY <1>1, <1>2
<1>5. p = 224 => q >= 160
  BY <1>0, <1>1, <1>2
<1>6. p = 237 => q < 160
  BY <1>0, <1>1, <1>2
<1> QED
  BY <1>1, <1>2, <1>3, <1>4, <1>5, <1>6

\* The bytes of a character, from which it is known again.
LEMMA CharBytesAre ==
    ASSUME NEW c \in Char
    PROVE  \/ c < 128 /\ CharBytes(c) = <<c>>
           \/ /\ c >= 128 /\ c < 2048
              /\ CharBytes(c) = <<192 + c \div 64, 128 + (c % 64)>>
           \/ /\ c >= 2048
              /\ CharBytes(c) = <<224 + c \div 4096, 128 + ((c \div 64) % 64), 128 + (c % 64)>>
<1>0. c \in Nat
  BY DEF Char
<1>1. CASE c < 128
  BY <1>0, <1>1 DEF CharBytes
<1>2. CASE c >= 128 /\ c < 2048
  BY <1>0, <1>2 DEF CharBytes
<1>3. CASE c >= 2048
  BY <1>0, <1>3 DEF CharBytes
<1> QED
  BY <1>0, <1>1, <1>2, <1>3

LEMMA CharBytesType ==
    ASSUME NEW c \in Char
    PROVE  CharBytes(c) \in Seq(Byte) /\ Len(CharBytes(c)) \in 1 .. 3
<1>0. c \in Nat
  BY DEF Char
<1>1. CASE c < 128
  <2>1. CharBytes(c) = <<c>> /\ c \in Byte
    BY <1>0, <1>1, CharBytesAre DEF Byte
  <2> QED
    BY <2>1
<1>2. CASE c >= 128 /\ c < 2048
  <2>1. CharBytes(c) = <<192 + c \div 64, 128 + (c % 64)>>
    BY <1>0, <1>2, CharBytesAre
  <2>2. 192 + c \div 64 \in Byte /\ 128 + (c % 64) \in Byte
    BY <1>0, <1>2, TwoBytes DEF Byte
  <2> QED
    BY <2>1, <2>2
<1>3. CASE c >= 2048
  <2>1. CharBytes(c) = <<224 + c \div 4096, 128 + ((c \div 64) % 64), 128 + (c % 64)>>
    BY <1>0, <1>3, CharBytesAre
  <2>2. 224 + c \div 4096 \in Byte /\ 128 + ((c \div 64) % 64) \in Byte /\ 128 + (c % 64) \in Byte
    BY <1>0, <1>3, ThreeBytes DEF Byte
  <2> QED
    BY <2>1, <2>2
<1> QED
  BY <1>0, <1>1, <1>2, <1>3

LEMMA CharIsNat == \A c \in Char : c \in Nat /\ c <= 65535
BY DEF Char

LEMMA Ranges ==
    \A x : /\ x \in 194 .. 223 => ~(x < 128)
           /\ x \in 224 .. 239 => ~(x < 128) /\ ~(x \in 194 .. 223)
           /\ x \in 128 .. 191 => ~(x < 128) /\ ~(x \in 194 .. 223) /\ ~(x \in 224 .. 239)
OBVIOUS

LEMMA Single ==
    ASSUME NEW bytes, NEW i, bytes[i] < 128
    PROVE  CharLength(bytes, i) = 1
BY DEF CharLength, Follows

LEMMA CharAtIs ==
    ASSUME NEW bytes, NEW i
    PROVE  /\ CharLength(bytes, i) = 1 => CharAt(bytes, i) = bytes[i]
           /\ CharLength(bytes, i) = 2 =>
                CharAt(bytes, i) = (bytes[i] % 32) * 64 + (bytes[i + 1] % 64)
           /\ CharLength(bytes, i) = 3 =>
                CharAt(bytes, i) = (bytes[i] % 16) * 4096 + (bytes[i + 1] % 64) * 64
                                      + (bytes[i + 2] % 64)
           /\ CharLength(bytes, i) = 0 => CharAt(bytes, i) = NoChar
<1> DEFINE n == CharLength(bytes, i)
           x == bytes[i]
           y == (bytes[i] % 32) * 64 + (bytes[i + 1] % 64)
           z == (bytes[i] % 16) * 4096 + (bytes[i + 1] % 64) * 64 + (bytes[i + 2] % 64)
           w == CharAt(bytes, i)
<1>1. w = IF n = 1 THEN x ELSE IF n = 2 THEN y ELSE IF n = 3 THEN z ELSE NoChar
  BY DEF CharAt
<1>2. (n = 1 => w = x) /\ (n = 2 => w = y) /\ (n = 3 => w = z) /\ (n = 0 => w = NoChar)
  <2> HIDE DEF n, x, y, z, w
  <2> QED
    BY <1>1
<1> QED
  BY <1>2

LEMMA Double ==
    ASSUME NEW bytes, NEW p \in 194 .. 223, NEW q, bytes[1] = p, bytes[2] = q,
           Continues(q), 2 <= Len(bytes)
    PROVE  CharLength(bytes, 1) = 2 /\ CharAt(bytes, 1) = (p % 32) * 64 + (q % 64)
<1>1. ~(bytes[1] < 128) /\ bytes[1] \in 194 .. 223
  OBVIOUS
<1>2. Follows(bytes, 1, 1)
  <2>1. 1 + 1 = 2 /\ \A j \in 1 .. 1 : 1 + j = 2
    OBVIOUS
  <2> QED
    BY <2>1 DEF Follows
<1>3. CharLength(bytes, 1) = 2
  BY <1>1, <1>2 DEF CharLength
<1>4. CharAt(bytes, 1) = (bytes[1] % 32) * 64 + (bytes[1 + 1] % 64)
  BY <1>3, CharAtIs
<1>5. 1 + 1 = 2
  OBVIOUS
<1> QED
  BY <1>3, <1>4, <1>5

ThreeOf(p, q, s) == (p % 16) * 4096 + (q % 64) * 64 + (s % 64)

\* Not one with a shorter form, nor half of a pair.
Proper(p, q) == (p = 224 => q >= 160) /\ (p = 237 => q < 160)

LEMMA Triple ==
    ASSUME NEW bytes, NEW p \in 224 .. 239, NEW q, NEW s,
           bytes[1] = p, bytes[2] = q, bytes[3] = s, 3 <= Len(bytes),
           Continues(q), Continues(s), Proper(p, q)
    PROVE  CharLength(bytes, 1) = 3 /\ CharAt(bytes, 1) = ThreeOf(p, q, s)
<1>1. bytes[1] \in 224 .. 239 /\ ~(bytes[1] < 128) /\ ~(bytes[1] \in 194 .. 223)
  OBVIOUS
<1>2. Follows(bytes, 1, 2)
  <2>1. 1 + 2 = 3 /\ \A j \in 1 .. 2 : 1 + j = 2 \/ 1 + j = 3
    OBVIOUS
  <2> QED
    BY <2>1 DEF Follows
<1>3. 1 + 1 = 2 /\ 1 + 2 = 3
  OBVIOUS
<1>4. CharLength(bytes, 1) = 3
  <2> DEFINE One   == bytes[1] < 128
             Two   == bytes[1] \in 194 .. 223 /\ Follows(bytes, 1, 1)
             Three == /\ bytes[1] \in 224 .. 239 /\ Follows(bytes, 1, 2)
                      /\ bytes[1] = 224 => bytes[1 + 1] >= 160
                      /\ bytes[1] = 237 => bytes[1 + 1] < 160
  <2>1. CharLength(bytes, 1) = IF One THEN 1 ELSE IF Two THEN 2 ELSE IF Three THEN 3 ELSE 0
    BY Zenon DEF CharLength
  <2>2. ~One /\ ~Two
    BY <1>1
  <2>3. Three
    <3>1. bytes[1] = 224 => bytes[1 + 1] >= 160
      BY <1>3 DEF Proper
    <3>2. bytes[1] = 237 => bytes[1 + 1] < 160
      BY <1>3 DEF Proper
    <3> QED
      BY <1>1, <1>2, <3>1, <3>2, Zenon
  <2> HIDE DEF One, Two, Three
  <2> QED
    BY <2>1, <2>2, <2>3
<1>5. CharAt(bytes, 1) = ThreeOf(bytes[1], bytes[1 + 1], bytes[1 + 2])
  BY <1>4, CharAtIs DEF ThreeOf
<1> QED
  BY <1>3, <1>4, <1>5

LEMMA Inner ==
    ASSUME NEW bytes, NEW i, bytes[i] \in 128 .. 191
    PROVE  CharLength(bytes, i) = 0
<1>1. ~(bytes[i] < 128) /\ ~(bytes[i] \in 194 .. 223) /\ ~(bytes[i] \in 224 .. 239)
  BY Ranges
<1> QED
  BY <1>1 DEF CharLength, Follows

LEMMA CharBegins ==
    ASSUME NEW c \in Char, NEW r \in Seq(Byte), NEW b, b = CharBytes(c) \o r
    PROVE  /\ CharLength(b, 1) = Len(CharBytes(c)) /\ CharAt(b, 1) = c
           /\ \A j \in 2 .. Len(CharBytes(c)) : CharLength(b, j) = 0
<1>0. c \in Nat /\ CharBytes(c) \in Seq(Byte)
  <2>1. c \in Nat
    BY CharIsNat
  <2> QED
    BY <2>1, CharBytesType
<1>1. CASE c < 128
  <2>1. CharBytes(c) = <<c>>
    BY <1>0, <1>1, CharBytesAre
  <2>2. b[1] = c /\ Len(CharBytes(c)) = 1
    BY <1>0, <2>1
  <2>3. CharLength(b, 1) = 1
    BY <1>1, <2>2, Single
  <2>4. CharAt(b, 1) = c
    BY <2>2, <2>3 DEF CharAt
  <2>5. 2 .. 1 = {}
    OBVIOUS
  <2> QED
    BY <2>2, <2>3, <2>4, <2>5
<1>2. CASE c >= 128 /\ c < 2048
  <2> DEFINE p == 192 + c \div 64
             q == 128 + (c % 64)
  <2>1. CharBytes(c) = <<p, q>>
    BY <1>0, <1>2, CharBytesAre
  <2>2. /\ p \in 194 .. 223 /\ q \in 128 .. 191 /\ Continues(q)
        /\ (p % 32) * 64 + (q % 64) = c
    BY <1>0, <1>2, TwoBytes DEF Continues
  <2> HIDE DEF p, q
  <2>3. /\ b[1] = p /\ b[2] = q /\ 2 <= Len(b) /\ Len(CharBytes(c)) = 2
    BY <1>0, <2>1
  <2>4. CharLength(b, 1) = 2 /\ CharAt(b, 1) = c
    BY <2>2, <2>3, Double
  <2>5. CharLength(b, 2) = 0
    <3>1. b[2] \in 128 .. 191
      BY <2>2, <2>3
    <3> QED
      BY <3>1, Inner
  <2>6. \A j \in 2 .. 2 : j = 2
    OBVIOUS
  <2> QED
    BY <2>3, <2>4, <2>5, <2>6
<1>3. CASE c >= 2048
  <2> DEFINE p == 224 + c \div 4096
             q == 128 + ((c \div 64) % 64)
             s == 128 + (c % 64)
  <2>1. CharBytes(c) = <<p, q, s>>
    BY <1>0, <1>3, CharBytesAre
  <2>2. /\ p \in 224 .. 239 /\ q \in 128 .. 191 /\ s \in 128 .. 191
        /\ Continues(q) /\ Continues(s)
        /\ Proper(p, q) /\ ThreeOf(p, q, s) = c
    BY <1>3, ThreeBytes DEF Continues, ThreeOf, Proper
  <2> HIDE DEF p, q, s
  <2>3. b[1] = p /\ b[2] = q /\ b[3] = s /\ 3 <= Len(b) /\ Len(CharBytes(c)) = 3
    BY <1>0, <2>1
  <2>4. CharLength(b, 1) = 3 /\ CharAt(b, 1) = c
    <3>0. /\ p \in 224 .. 239 /\ b[1] = p /\ b[2] = q /\ b[3] = s /\ 3 <= Len(b)
          /\ Continues(q) /\ Continues(s) /\ Proper(p, q)
      BY <2>2, <2>3
    <3>1. CharLength(b, 1) = 3 /\ CharAt(b, 1) = ThreeOf(p, q, s)
      BY <3>0, Triple
    <3> QED
      BY <2>2, <3>1
  <2>5. CharLength(b, 2) = 0 /\ CharLength(b, 3) = 0
    <3>1. b[2] \in 128 .. 191 /\ b[3] \in 128 .. 191
      BY <2>2, <2>3
    <3> QED
      BY <3>1, Inner
  <2>6. \A j \in 2 .. 3 : j = 2 \/ j = 3
    OBVIOUS
  <2> QED
    BY <2>3, <2>4, <2>5, <2>6
<1> QED
  BY <1>0, <1>1, <1>2, <1>3

TwoOf(p, q) == (p % 32) * 64 + (q % 64)

LEMMA CharLengthRange ==
    ASSUME NEW b, NEW i
    PROVE  /\ CharLength(b, i) \in 0 .. 3
           /\ CharLength(b, i) = 2 => Follows(b, i, 1)
           /\ CharLength(b, i) = 3 => Follows(b, i, 2)
<1> DEFINE One   == b[i] < 128
           Two   == b[i] \in 194 .. 223
           Three == /\ b[i] = 224 => b[i + 1] >= 160
                    /\ b[i] = 237 => b[i + 1] < 160
           Lead  == b[i] \in 224 .. 239
           F1    == Follows(b, i, 1)
           F2    == Follows(b, i, 2)
           n     == CharLength(b, i)
<1>1. n = IF One THEN 1 ELSE IF Two /\ F1 THEN 2 ELSE IF Lead /\ F2 /\ Three THEN 3 ELSE 0
  BY DEF CharLength
<1> HIDE DEF One, Two, Three, Lead, F1, F2, n
<1>2. n \in 0 .. 3 /\ (n = 2 => F1) /\ (n = 3 => F2)
  BY <1>1
<1> QED
  BY <1>2 DEF F1, F2, n

\* What precedes a character does not matter to it.
LEMMA FollowsShifted ==
    ASSUME NEW b, NEW k \in Nat, NEW r, NEW i \in Nat, NEW n \in 1 .. 2,
           k + n <= Len(b) <=> i + n <= Len(r),
           i + n <= Len(r) => \A j \in 1 .. n : b[k + j] = r[i + j]
    PROVE  Follows(b, k, n) <=> Follows(r, i, n)
<1>1. CASE i + n <= Len(r)
  BY <1>1 DEF Follows
<1>2. CASE ~(i + n <= Len(r))
  BY <1>2 DEF Follows
<1> QED
  BY <1>1, <1>2

Alike(b, k, r, i) ==
    /\ b[k] = r[i]
    /\ Follows(b, k, 1) <=> Follows(r, i, 1)
    /\ Follows(b, k, 2) <=> Follows(r, i, 2)
    /\ Follows(r, i, 1) => b[k + 1] = r[i + 1]
    /\ Follows(r, i, 2) => b[k + 1] = r[i + 1] /\ b[k + 2] = r[i + 2]

LEMMA SameChar ==
    ASSUME NEW b, NEW k, NEW r, NEW i, Alike(b, k, r, i)
    PROVE  CharLength(b, k) = CharLength(r, i) /\ CharAt(b, k) = CharAt(r, i)
<1>1. CharLength(b, k) = CharLength(r, i)
  BY DEF CharLength, Alike
<1>2. /\ CharLength(r, i) \in 0 .. 3
      /\ CharLength(r, i) = 2 => Follows(r, i, 1)
      /\ CharLength(r, i) = 3 => Follows(r, i, 2)
  BY CharLengthRange
<1>3. CASE CharLength(r, i) = 0
  <2>1. CharAt(b, k) = NoChar
    BY <1>1, <1>3, CharAtIs
  <2>2. CharAt(r, i) = NoChar
    BY <1>3, CharAtIs
  <2> QED
    BY <1>1, <2>1, <2>2
<1>4. CASE CharLength(r, i) = 1
  <2>1. CharAt(b, k) = b[k] /\ b[k] = r[i]
    BY <1>1, <1>4, CharAtIs DEF Alike
  <2>2. CharAt(r, i) = r[i]
    BY <1>4, CharAtIs
  <2> QED
    BY <1>1, <2>1, <2>2
<1>5. CASE CharLength(r, i) = 2
  <2>1. CharAt(b, k) = TwoOf(b[k], b[k + 1])
    BY <1>1, <1>5, CharAtIs DEF TwoOf
  <2>2. CharAt(r, i) = TwoOf(r[i], r[i + 1])
    BY <1>5, CharAtIs DEF TwoOf
  <2>3. b[k] = r[i] /\ b[k + 1] = r[i + 1]
    BY <1>2, <1>5 DEF Alike
  <2> QED
    BY <1>1, <2>1, <2>2, <2>3
<1>6. CASE CharLength(r, i) = 3
  <2>1. CharAt(b, k) = ThreeOf(b[k], b[k + 1], b[k + 2])
    BY <1>1, <1>6, CharAtIs DEF ThreeOf
  <2>2. CharAt(r, i) = ThreeOf(r[i], r[i + 1], r[i + 2])
    BY <1>6, CharAtIs DEF ThreeOf
  <2>3. b[k] = r[i] /\ b[k + 1] = r[i + 1] /\ b[k + 2] = r[i + 2]
    BY <1>2, <1>6 DEF Alike
  <2> QED
    BY <1>1, <2>1, <2>2, <2>3
<1> QED
  BY <1>2, <1>3, <1>4, <1>5, <1>6

LEMMA CharShifted ==
    ASSUME NEW S, NEW x \in Seq(S), NEW r \in Seq(S), NEW b, b = x \o r, NEW i \in 1 .. Len(r)
    PROVE  CharLength(b, Len(x) + i) = CharLength(r, i) /\ CharAt(b, Len(x) + i) = CharAt(r, i)
<1> DEFINE k == Len(x) + i
<1>1. /\ k \in Nat /\ i \in Nat /\ Len(b) = Len(x) + Len(r) /\ Len(x) \in Nat /\ Len(r) \in Nat
      /\ \A j \in 1 .. Len(r) : b[Len(x) + j] = r[j]
  OBVIOUS
<1>2. b[k] = r[i]
  BY <1>1
<1>3. ASSUME NEW n \in 1 .. 2
      PROVE  /\ k + n <= Len(b) <=> i + n <= Len(r)
             /\ i + n <= Len(r) => \A j \in 1 .. n : b[k + j] = r[i + j]
  <2>1. k + n <= Len(b) <=> i + n <= Len(r)
    BY <1>1
  <2>2. ASSUME i + n <= Len(r), NEW j \in 1 .. n PROVE b[k + j] = r[i + j]
    <3>1. k + j = Len(x) + (i + j) /\ i + j \in 1 .. Len(r)
      BY <1>1, <2>2
    <3> QED
      BY <1>1, <3>1
  <2> QED
    BY <2>1, <2>2
<1> HIDE DEF k
<1>4. ASSUME NEW n \in 1 .. 2
      PROVE  /\ Follows(b, k, n) <=> Follows(r, i, n)
             /\ Follows(r, i, n) => \A j \in 1 .. n : b[k + j] = r[i + j]
  <2>1. Follows(b, k, n) <=> Follows(r, i, n)
    BY <1>1, <1>3, FollowsShifted
  <2>2. Follows(r, i, n) => i + n <= Len(r)
    BY DEF Follows
  <2> QED
    BY <1>3, <2>1, <2>2
<1>5. 1 \in 1 .. 2 /\ 2 \in 1 .. 2 /\ 1 \in 1 .. 1
  OBVIOUS
<1>6. /\ Follows(b, k, 1) <=> Follows(r, i, 1)
      /\ Follows(r, i, 1) => b[k + 1] = r[i + 1]
  BY <1>4, <1>5
<1>7. /\ Follows(b, k, 2) <=> Follows(r, i, 2)
      /\ Follows(r, i, 2) => b[k + 1] = r[i + 1] /\ b[k + 2] = r[i + 2]
  BY <1>4, <1>5
<1>8. CharLength(b, k) = CharLength(r, i) /\ CharAt(b, k) = CharAt(r, i)
  <2>1. Alike(b, k, r, i)
    BY <1>2, <1>6, <1>7 DEF Alike
  <2> QED
    BY <2>1, SameChar
<1> QED
  BY <1>8 DEF k

\* Behind those of a character, bytes begin the characters they began.
LEMMA BytesShifted ==
    ASSUME NEW c \in Char, NEW r \in Seq(Byte), NEW b, b = CharBytes(c) \o r
    PROVE  \A j \in 1 .. Len(r) : CharLength(b, Len(CharBytes(c)) + j) = CharLength(r, j)
BY CharBytesType, CharShifted

LEMMA BeginsShifted ==
    ASSUME NEW c \in Char, NEW r \in Seq(Byte), NEW b, b = CharBytes(c) \o r,
           NEW i \in 1 .. Len(r)
    PROVE  Begins(b, Len(CharBytes(c)) + i) <=> Begins(r, i)
<1> DEFINE x == CharBytes(c)
           L == Len(x)
           k == L + i
<1>1. x \in Seq(Byte) /\ L \in 1 .. 3
  BY CharBytesType
<1>2. CharLength(b, 1) = L /\ \A j \in 2 .. L : CharLength(b, j) = 0
  BY CharBegins
<1>3. \A j \in 1 .. Len(r) : CharLength(b, L + j) = CharLength(r, j)
  BY BytesShifted
<1>4. DOMAIN b = 1 .. L + Len(r) /\ DOMAIN r = 1 .. Len(r) /\ Len(r) \in Nat
  BY <1>1
<1> HIDE DEF x, L
<1>5. ASSUME Begins(b, k), NEW j \in {i - 2, i - 1} \cap DOMAIN r PROVE CharLength(r, j) <= i - j
  <2>1. L + j \in {k - 2, k - 1} \cap DOMAIN b /\ k - (L + j) = i - j /\ j \in 1 .. Len(r)
    BY <1>1, <1>4
  <2>2. CharLength(b, L + j) <= k - (L + j)
    BY <1>5, <2>1 DEF Begins
  <2> QED
    BY <1>3, <2>1, <2>2
<1>6. ASSUME Begins(r, i), NEW j \in {k - 2, k - 1} \cap DOMAIN b PROVE CharLength(b, j) <= k - j
  <2>0. j \in Nat /\ L \in Nat /\ i \in Nat /\ j >= 1 /\ j <= L + Len(r) /\ k \in Nat /\ j <= k
    BY <1>1, <1>4
  <2>1. CASE j > L
    <3>1. j - L \in {i - 2, i - 1} \cap DOMAIN r /\ L + (j - L) = j /\ k - j = i - (j - L)
      BY <1>4, <2>0, <2>1
    <3>2. CharLength(r, j - L) <= i - (j - L)
      BY <1>6, <3>1 DEF Begins
    <3>3. CharLength(b, L + (j - L)) = CharLength(r, j - L)
      BY <1>3, <1>4, <3>1
    <3> QED
      BY <3>1, <3>2, <3>3
  <2>2. CASE j = 1
    BY <1>1, <1>2, <2>0, <2>2
  <2>3. CASE j > 1 /\ j <= L
    <3>1. j \in 2 .. L /\ 0 <= k - j
      BY <2>0, <2>3
    <3> QED
      BY <1>2, <3>1
  <2> QED
    BY <2>0, <2>1, <2>2, <2>3
<1>7. Begins(b, k) => Begins(r, i)
  BY <1>5 DEF Begins
<1>8. Begins(r, i) => Begins(b, k)
  BY <1>6 DEF Begins
<1> QED
  BY <1>7, <1>8 DEF x, L

\* A text read from its bytes, character by character.
LEMMA BeginsFirst ==
    ASSUME NEW c \in Char, NEW r \in Seq(Byte), NEW b, b = CharBytes(c) \o r
    PROVE  Begins(b, 1) /\ \A i \in 2 .. Len(CharBytes(c)) : ~Begins(b, i)
<1> DEFINE L == Len(CharBytes(c))
<1>1. CharBytes(c) \in Seq(Byte) /\ L \in 1 .. 3
  BY CharBytesType
<1>2. CharLength(b, 1) = L
  BY CharBegins
<1>3. DOMAIN b = 1 .. L + Len(r) /\ Len(r) \in Nat
  BY <1>1
<1> HIDE DEF L
<1>4. {1 - 2, 1 - 1} \cap DOMAIN b = {}
  BY <1>1, <1>3
<1>5. ASSUME NEW i \in 2 .. L PROVE ~Begins(b, i)
  <2>1. 1 \in {i - 2, i - 1} \cap DOMAIN b /\ ~(L <= i - 1)
    BY <1>1, <1>3
  <2> QED
    BY <1>2, <2>1 DEF Begins
<1> QED
  BY <1>4, <1>5 DEF Begins, L

LEMMA CharMeans ==
    ASSUME NEW c \in Nat, c <= 65535, ~(55296 <= c /\ c <= 57343)
    PROVE  c \in Char
BY DEF Char

LEMMA ShortSub ==
    ASSUME NEW S, NEW s \in Seq(S), NEW i \in 1 .. Len(s)
    PROVE  /\ SubSeq(s, i, i) = <<s[i]>>
           /\ i + 1 <= Len(s) => SubSeq(s, i, i + 1) = <<s[i], s[i + 1]>>
           /\ i + 2 <= Len(s) => SubSeq(s, i, i + 2) = <<s[i], s[i + 1], s[i + 2]>>
<1>0. i \in Nat /\ i >= 1 /\ Len(s) \in Nat
  OBVIOUS
<1>1. ASSUME NEW n \in 0 .. 2, i + n <= Len(s)
      PROVE  /\ SubSeq(s, i, i + n) \in Seq(S) /\ Len(SubSeq(s, i, i + n)) = n + 1
             /\ \A j \in 1 .. n + 1 : SubSeq(s, i, i + n)[j] = s[i + (j - 1)]
  BY <1>0, <1>1
<1>2. SubSeq(s, i, i) = <<s[i]>>
  <2>1. i + 0 = i /\ 0 \in 0 .. 2 /\ i + 0 <= Len(s)
    BY <1>0
  <2> DEFINE t == SubSeq(s, i, i)
  <2>2. t \in Seq(S) /\ Len(t) = 1 /\ t[1] = s[i]
    BY <1>1, <2>1
  <2> HIDE DEF t
  <2>3. t = <<s[i]>>
    BY <2>2
  <2> QED
    BY <2>3 DEF t
<1>3. ASSUME i + 1 <= Len(s) PROVE SubSeq(s, i, i + 1) = <<s[i], s[i + 1]>>
  <2> DEFINE t == SubSeq(s, i, i + 1)
  <2>1. 1 \in 0 .. 2 /\ 1 - 1 = 0 /\ 2 - 1 = 1 /\ i + 0 = i
    BY <1>0
  <2>2. t \in Seq(S) /\ Len(t) = 2 /\ t[1] = s[i] /\ t[2] = s[i + 1]
    BY <1>1, <1>3, <2>1
  <2> HIDE DEF t
  <2>3. t = <<s[i], s[i + 1]>>
    BY <2>2
  <2> QED
    BY <2>3 DEF t
<1>4. ASSUME i + 2 <= Len(s) PROVE SubSeq(s, i, i + 2) = <<s[i], s[i + 1], s[i + 2]>>
  <2> DEFINE t == SubSeq(s, i, i + 2)
  <2>1. 2 \in 0 .. 2 /\ 1 - 1 = 0 /\ 2 - 1 = 1 /\ 3 - 1 = 2 /\ i + 0 = i
    BY <1>0
  <2>2. t \in Seq(S) /\ Len(t) = 3 /\ t[1] = s[i] /\ t[2] = s[i + 1] /\ t[3] = s[i + 2]
    BY <1>1, <1>4, <2>1
  <2> HIDE DEF t
  <2>3. t = <<s[i], s[i + 1], s[i + 2]>>
    BY <2>2
  <2> QED
    BY <2>3 DEF t
<1> QED
  BY <1>2, <1>3, <1>4

\* What is read of one, two or three bytes, and that these are its bytes.
LEMMA ContinuesMeans ==
    ASSUME NEW q \in Byte, Continues(q)
    PROVE  q \in 128 .. 191 /\ q % 64 = q - 128
<1>1. q \in 0 .. 255 /\ q \div 64 = 2
  BY DEF Byte, Continues
<1> QED
  BY <1>1

LEMMA OneRead ==
    ASSUME NEW p \in Byte, p < 128
    PROVE  p \in Char /\ CharBytes(p) = <<p>>
<1>1. p \in 0 .. 127
  BY DEF Byte
<1>2. p \in Char
  BY <1>1, CharMeans
<1> QED
  BY <1>1, <1>2, CharBytesAre

LEMMA TwoRead ==
    ASSUME NEW p \in 194 .. 223, NEW q \in Byte, Continues(q)
    PROVE  TwoOf(p, q) \in Char /\ CharBytes(TwoOf(p, q)) = <<p, q>>
<1> DEFINE c == TwoOf(p, q)
           h == p - 192
           l == q - 128
<1>1. h \in 2 .. 31 /\ l \in 0 .. 63 /\ p % 32 = h /\ q % 64 = l /\ p = 192 + h /\ q = 128 + l
  BY ContinuesMeans
<1> HIDE DEF h, l
<1>2. c = h * 64 + l
  BY <1>1 DEF TwoOf
<1> HIDE DEF c
<1>3. c \in Nat /\ c >= 128 /\ c < 2048 /\ c \div 64 = h /\ c % 64 = l
  BY <1>1, <1>2
<1>4. c \in Char
  BY <1>3, CharMeans
<1>5. CharBytes(c) = <<192 + c \div 64, 128 + (c % 64)>>
  BY <1>3, <1>4, CharBytesAre
<1> QED
  BY <1>1, <1>3, <1>4, <1>5 DEF c

LEMMA ThreeRead ==
    ASSUME NEW p \in 224 .. 239, NEW q \in Byte, NEW s \in Byte, Continues(q), Continues(s),
           Proper(p, q)
    PROVE  ThreeOf(p, q, s) \in Char /\ CharBytes(ThreeOf(p, q, s)) = <<p, q, s>>
<1> DEFINE c == ThreeOf(p, q, s)
           h == p - 224
           m == q - 128
           l == s - 128
<1>0. q \in 128 .. 191 /\ s \in 128 .. 191 /\ q % 64 = q - 128 /\ s % 64 = s - 128
  BY ContinuesMeans
<1>1. /\ h \in 0 .. 15 /\ m \in 0 .. 63 /\ l \in 0 .. 63 /\ p % 16 = h /\ q % 64 = m /\ s % 64 = l
      /\ p = 224 + h /\ q = 128 + m /\ s = 128 + l
  BY <1>0
<1>2. c = h * 4096 + m * 64 + l
  <2> HIDE DEF h, m, l
  <2> QED
    BY <1>1 DEF ThreeOf
<1>3. (h = 0 => m >= 32) /\ (h = 13 => m < 32)
  BY <1>0 DEF Proper
<1> HIDE DEF c, h, m, l
<1>4. c \in Nat /\ c >= 2048 /\ c <= 65535 /\ ~(55296 <= c /\ c <= 57343)
  BY <1>1, <1>2, <1>3
<1>5. c \in Char
  BY <1>4, CharMeans
<1>6. c \div 4096 \in Nat /\ (c \div 64) % 64 \in 0 .. 63 /\ c % 64 \in 0 .. 63
      /\ c = 4096 * (c \div 4096) + 64 * ((c \div 64) % 64) + (c % 64)
  BY <1>4, Digits
<1>7. c \div 4096 = h /\ (c \div 64) % 64 = m /\ c % 64 = l
  <2> DEFINE a == c \div 4096
             b == (c \div 64) % 64
             d == c % 64
  <2>1. a \in Nat /\ b \in 0 .. 63 /\ d \in 0 .. 63 /\ c = 4096 * a + 64 * b + d
    BY <1>6
  <2> HIDE DEF a, b, d
  <2>2. a = h /\ b = m /\ d = l
    BY <1>1, <1>2, <2>1
  <2> QED
    BY <2>2 DEF a, b, d
<1>8. CharBytes(c) = <<224 + c \div 4096, 128 + ((c \div 64) % 64), 128 + (c % 64)>>
  BY <1>4, <1>5, CharBytesAre
<1> QED
  BY <1>1, <1>5, <1>7, <1>8 DEF c

LEMMA CharReads ==
    ASSUME NEW b \in Seq(Byte), NEW i \in 1 .. Len(b), CharLength(b, i) # 0
    PROVE  /\ CharLength(b, i) \in 1 .. 3 /\ i + CharLength(b, i) - 1 <= Len(b)
           /\ CharAt(b, i) \in Char
           /\ CharBytes(CharAt(b, i)) = SubSeq(b, i, i + CharLength(b, i) - 1)
<1> DEFINE n == CharLength(b, i)
<1>1. /\ n = 1 => b[i] < 128
      /\ n = 2 => b[i] \in 194 .. 223 /\ Follows(b, i, 1)
      /\ n = 3 => b[i] \in 224 .. 239 /\ Follows(b, i, 2) /\ Proper(b[i], b[i + 1])
  <2> DEFINE One   == b[i] < 128
             Two   == b[i] \in 194 .. 223
             Fit2  == Proper(b[i], b[i + 1])
             Lead  == b[i] \in 224 .. 239
             F1    == Follows(b, i, 1)
             F2    == Follows(b, i, 2)
  <2>1. n = IF One THEN 1 ELSE IF Two /\ F1 THEN 2 ELSE IF Lead /\ F2 /\ Fit2 THEN 3 ELSE 0
    BY DEF CharLength, Proper
  <2> HIDE DEF One, Two, Fit2, Lead, F1, F2, n
  <2>2. (n = 1 => One) /\ (n = 2 => Two /\ F1) /\ (n = 3 => Lead /\ F2 /\ Fit2)
    BY <2>1
  <2> QED
    BY <2>2 DEF One, Two, Fit2, Lead, F1, F2
<1>2. n \in 1 .. 3
  BY CharLengthRange
<1>3. i \in Nat /\ Len(b) \in Nat /\ \A j \in 1 .. Len(b) : b[j] \in Byte
  OBVIOUS
<1> HIDE DEF n
<1>4. CASE n = 1
  <2>1. b[i] \in Byte /\ b[i] < 128
    BY <1>1, <1>3, <1>4
  <2>2. CharAt(b, i) = b[i]
    BY <1>4, CharAtIs DEF n
  <2>3. SubSeq(b, i, i + n - 1) = <<b[i]>>
    <3>1. i + n - 1 = i
      BY <1>3, <1>4
    <3> QED
      BY <3>1, ShortSub
  <2> QED
    BY <1>3, <1>4, <2>1, <2>2, <2>3, OneRead DEF n
<1>5. CASE n = 2
  <2>1. i + 1 <= Len(b) /\ Continues(b[i + 1])
    BY <1>1, <1>5 DEF Follows
  <2>2. b[i] \in 194 .. 223 /\ b[i + 1] \in Byte
    BY <1>1, <1>3, <1>5, <2>1
  <2>3. CharAt(b, i) = TwoOf(b[i], b[i + 1])
    BY <1>5, CharAtIs DEF n, TwoOf
  <2>4. SubSeq(b, i, i + n - 1) = <<b[i], b[i + 1]>>
    <3>1. i + n - 1 = i + 1
      BY <1>3, <1>5
    <3> QED
      BY <2>1, <3>1, ShortSub
  <2>5. TwoOf(b[i], b[i + 1]) \in Char /\ CharBytes(TwoOf(b[i], b[i + 1])) = <<b[i], b[i + 1]>>
    BY <2>1, <2>2, TwoRead
  <2> QED
    BY <1>3, <1>5, <2>1, <2>3, <2>4, <2>5 DEF n
<1>6. CASE n = 3
  <2>1. i + 2 <= Len(b) /\ Continues(b[i + 1]) /\ Continues(b[i + 2])
    BY <1>1, <1>6 DEF Follows
  <2>2. b[i] \in 224 .. 239 /\ b[i + 1] \in Byte /\ b[i + 2] \in Byte /\ Proper(b[i], b[i + 1])
    BY <1>1, <1>3, <1>6, <2>1
  <2>3. CharAt(b, i) = ThreeOf(b[i], b[i + 1], b[i + 2])
    BY <1>6, CharAtIs DEF n, ThreeOf
  <2>4. SubSeq(b, i, i + n - 1) = <<b[i], b[i + 1], b[i + 2]>>
    <3>1. i + n - 1 = i + 2
      BY <1>3, <1>6
    <3> QED
      BY <2>1, <3>1, ShortSub
  <2>5. /\ ThreeOf(b[i], b[i + 1], b[i + 2]) \in Char
        /\ CharBytes(ThreeOf(b[i], b[i + 1], b[i + 2])) = <<b[i], b[i + 1], b[i + 2]>>
    BY <2>1, <2>2, ThreeRead
  <2> QED
    BY <1>3, <1>6, <2>1, <2>3, <2>4, <2>5 DEF n
<1> QED
  BY <1>2, <1>4, <1>5, <1>6 DEF n

LEMMA CharAtType ==
    ASSUME NEW b \in Seq(Byte), NEW i \in 1 .. Len(b)
    PROVE  CharAt(b, i) \in Char \cup {NoChar}
<1>1. CASE CharLength(b, i) = 0
  BY <1>1, CharAtIs
<1>2. CASE CharLength(b, i) # 0
  BY <1>2, CharReads
<1> QED
  BY <1>1, <1>2

LEMMA CharsPrefix ==
    ASSUME NEW c \in Char, NEW r \in Seq(Byte)
    PROVE  Chars(CharBytes(c) \o r) = <<c>> \o Chars(r)
<1> DEFINE b == CharBytes(c) \o r
           L == Len(CharBytes(c))
           S == Char \cup {NoChar}
           Piece(t, i) == IF Begins(t, i) THEN <<CharAt(t, i)>> ELSE << >>
           all   == [i \in DOMAIN b |-> Piece(b, i)]
           first == [i \in 1 .. L |-> Piece(b, i)]
           rest  == [i \in DOMAIN r |-> Piece(r, i)]
<1>1. /\ CharBytes(c) \in Seq(Byte) /\ L \in 1 .. 3 /\ b \in Seq(Byte)
      /\ DOMAIN b = 1 .. L + Len(r) /\ DOMAIN r = 1 .. Len(r) /\ Len(r) \in Nat
  BY CharBytesType
<1>2. CharAt(b, 1) = c /\ Begins(b, 1) /\ \A i \in 2 .. L : ~Begins(b, i)
  BY CharBegins, BeginsFirst
<1>3. \A i \in 1 .. Len(r) : CharAt(b, L + i) = CharAt(r, i)
  BY <1>1, CharShifted
<1>4. \A i \in 1 .. Len(r) : Begins(b, L + i) <=> Begins(r, i)
  BY BeginsShifted
<1>5. Chars(b) = Concat(all) /\ Chars(r) = Concat(rest)
  BY DEF Chars
<1>6. ASSUME NEW t \in Seq(Byte), NEW i \in 1 .. Len(t) PROVE Piece(t, i) \in Seq(S)
  <2>1. CharAt(t, i) \in S
    BY CharAtType
  <2> HIDE DEF S
  <2> QED
    BY <2>1
<1> HIDE DEF b, L, S
<1>7. first \in Seq(Seq(S)) /\ Len(first) = L
  <2>1. \A i \in 1 .. L : Piece(b, i) \in Seq(S)
    BY <1>1, <1>6
  <2> HIDE DEF Piece
  <2> QED
    BY <1>1, <2>1
<1>8. rest \in Seq(Seq(S)) /\ Len(rest) = Len(r)
  <2>1. \A i \in 1 .. Len(r) : Piece(r, i) \in Seq(S)
    BY <1>6
  <2> HIDE DEF Piece
  <2> QED
    BY <1>1, <2>1
<1>9. all = first \o rest
  <2>1. ASSUME NEW i \in 1 .. Len(r) PROVE Piece(b, L + i) = Piece(r, i)
    BY <1>3, <1>4
  <2> HIDE DEF Piece
  <2>2. all \in [1 .. L + Len(r) -> Seq(S)] 
    <3>1. \A i \in 1 .. L + Len(r) : Piece(b, i) \in Seq(S)
      BY <1>1, <1>6
    <3> QED
      BY <1>1, <3>1
  <2> QED
    BY <1>1, <1>7, <1>8, <2>1, <2>2
<1>10. Concat(all) = Concat(first) \o Concat(rest)
  <2> HIDE DEF all, first, rest
  <2> QED
    BY <1>7, <1>8, <1>9, ConcatPlus
<1>11. Concat(first) = <<c>>
  <2> DEFINE one == <<<<c>>>>
             none == [i \in 1 .. L - 1 |-> << >>]
  <2>1. one \in Seq(Seq(S)) /\ <<c>> \in Seq(S)
    BY DEF S
  <2>2. none \in Seq(Seq(S)) /\ Len(none) = L - 1 /\ \A i \in 1 .. L - 1 : none[i] = << >>
    BY <1>1
  <2>3. first = one \o none
    <3>1. first[1] = <<c>> /\ \A i \in 2 .. L : first[i] = << >>
      BY <1>1, <1>2
    <3> HIDE DEF first, none
    <3>2. one \o none \in Seq(Seq(S)) /\ Len(one \o none) = L
      BY <1>1, <2>1, <2>2
    <3>3. (one \o none)[1] = <<c>> /\ \A i \in 2 .. L : (one \o none)[i] = none[i - 1]
      BY <1>1, <2>1, <2>2
    <3>4. \A i \in 2 .. L : i - 1 \in 1 .. L - 1
      BY <1>1
    <3>5. ASSUME NEW i \in 1 .. L PROVE first[i] = (one \o none)[i]
      <4>1. CASE i = 1
        BY <3>1, <3>3, <4>1
      <4>2. CASE i # 1
        <5>1. i \in 2 .. L
          BY <1>1, <4>2
        <5> QED
          BY <2>2, <3>1, <3>3, <3>4, <5>1
      <4> QED
        BY <4>1, <4>2
    <3> DEFINE both == one \o none
    <3> HIDE DEF one, both
    <3>6. both \in Seq(Seq(S)) /\ Len(both) = Len(first) /\ \A i \in 1 .. Len(first) : first[i] = both[i]
      BY <1>7, <3>2, <3>5 DEF both
    <3>7. first = both
      BY <1>7, <3>6, SeqEqual
    <3> QED
      BY <3>7 DEF both
  <2>4. Concat(one) = <<c>>
    BY <2>1, ConcatSingle
  <2> HIDE DEF none
  <2>5. Concat(none) = << >>
    BY <2>2, ConcatOfEmpty
  <2> HIDE DEF one, first
  <2>6. Concat(first) = Concat(one) \o Concat(none)
    BY <2>1, <2>2, <2>3, ConcatPlus
  <2>7. <<c>> \o << >> = <<c>>
    BY <2>1
  <2> QED
    BY <2>4, <2>5, <2>6, <2>7
<1> QED
  BY <1>5, <1>10, <1>11 DEF b

-----------------------------------------------------------------------------
\* How long a Concat is.
LEMMA ConcatLength ==
    ASSUME NEW S, NEW seqs \in Seq(Seq(S))
    PROVE  /\ (\A i \in 1 .. Len(seqs) : Len(seqs[i]) <= 1) => Len(Concat(seqs)) <= Len(seqs)
           /\ (\A i \in 1 .. Len(seqs) : Len(seqs[i]) <= 3) => Len(Concat(seqs)) <= 3 * Len(seqs)
           /\ (\A i \in 1 .. Len(seqs) : Len(seqs[i]) >= 1) => Len(seqs) <= Len(Concat(seqs))
<1>1. PICK f : Sums(f, seqs, S)
  BY SumsExist
<1>2. /\ Len(seqs) \in Nat /\ f[0] = << >> /\ \A i \in 0 .. Len(seqs) : f[i] \in Seq(S)
      /\ \A i \in 1 .. Len(seqs) : seqs[i] \in Seq(S) /\ f[i] = Cat(f[i - 1], seqs[i])
  BY <1>1, SumsMeans
<1>3. ASSUME NEW i \in 1 .. Len(seqs)
      PROVE  /\ Len(f[i]) = Len(f[i - 1]) + Len(seqs[i])
             /\ Len(f[i]) \in Nat /\ Len(f[i - 1]) \in Nat /\ Len(seqs[i]) \in Nat
  <2>1. /\ f[i - 1] \in Seq(S) /\ f[i] \in Seq(S) /\ seqs[i] \in Seq(S)
        /\ f[i] = Cat(f[i - 1], seqs[i])
    <3>1. i - 1 \in 0 .. Len(seqs) /\ i \in 0 .. Len(seqs)
      BY <1>2
    <3> QED
      BY <1>2, <3>1
  <2> DEFINE u == f[i - 1]
             v == seqs[i]
             w == f[i]
  <2>2. u \in Seq(S) /\ v \in Seq(S) /\ w = u \o v
    BY <2>1 DEF Cat
  <2> HIDE DEF u, v, w
  <2>3. Len(w) = Len(u) + Len(v) /\ Len(u) \in Nat /\ Len(v) \in Nat /\ Len(w) \in Nat
    BY <2>2, CatFacts
  <2> QED
    BY <2>3 DEF u, v, w
<1> DEFINE Ones   == \A i \in 1 .. Len(seqs) : Len(seqs[i]) <= 1
           Threes == \A i \in 1 .. Len(seqs) : Len(seqs[i]) <= 3
           Some   == \A i \in 1 .. Len(seqs) : Len(seqs[i]) >= 1
           P(n)   == n <= Len(seqs) =>
                        /\ Ones => Len(f[n]) <= n
                        /\ Threes => Len(f[n]) <= 3 * n
                        /\ Some => n <= Len(f[n])
<1>4. P(0)
  BY <1>2
<1>5. ASSUME NEW n \in Nat, P(n) PROVE P(n + 1)
  <2> SUFFICES ASSUME n + 1 <= Len(seqs)
               PROVE  /\ Ones => Len(f[n + 1]) <= n + 1
                      /\ Threes => Len(f[n + 1]) <= 3 * (n + 1)
                      /\ Some => n + 1 <= Len(f[n + 1])
    OBVIOUS
  <2>1. n + 1 \in 1 .. Len(seqs) /\ (n + 1) - 1 = n /\ n <= Len(seqs)
    BY <1>2
  <2>2. /\ Len(f[n + 1]) = Len(f[n]) + Len(seqs[n + 1])
        /\ Len(f[n + 1]) \in Nat /\ Len(f[n]) \in Nat /\ Len(seqs[n + 1]) \in Nat
    BY <1>3, <2>1
  <2>3. /\ Ones => Len(seqs[n + 1]) <= 1
        /\ Threes => Len(seqs[n + 1]) <= 3
        /\ Some => Len(seqs[n + 1]) >= 1
    BY <2>1
  <2>4. /\ Ones => Len(f[n]) <= n
        /\ Threes => Len(f[n]) <= 3 * n
        /\ Some => n <= Len(f[n])
    BY <1>5, <2>1
  <2> DEFINE a == Len(f[n + 1])
             b == Len(f[n])
             d == Len(seqs[n + 1])
  <2>5. a = b + d /\ a \in Nat /\ b \in Nat /\ d \in Nat
    BY <2>2
  <2>6. (Ones => b <= n) /\ (Threes => b <= 3 * n) /\ (Some => n <= b)
    BY <2>4
  <2>7. (Ones => d <= 1) /\ (Threes => d <= 3) /\ (Some => d >= 1)
    BY <2>3
  <2> HIDE DEF Ones, Threes, Some, a, b, d
  <2>8. (Ones => a <= n + 1) /\ (Threes => a <= 3 * (n + 1)) /\ (Some => n + 1 <= a)
    BY <2>5, <2>6, <2>7
  <2> QED
    BY <2>8 DEF a
<1>6. \A n \in Nat : P(n)
  <2> DEFINE T == {n \in Nat : P(n)}
  <2> HIDE DEF P
  <2>1. T \in SUBSET Nat /\ 0 \in T /\ \A n \in T : n + 1 \in T
    BY <1>4, <1>5
  <2>2. \A n \in Nat : n \in T
    <3> HIDE DEF T
    <3> QED
      BY <2>1, Induction
  <2> QED
    BY <2>2
<1>7. Concat(seqs) = f[Len(seqs)]
  BY <1>1, ConcatAdds
<1>8. P(Len(seqs))
  BY <1>2, <1>6
<1> QED
  BY <1>2, <1>7, <1>8
-----------------------------------------------------------------------------
(***************************************************************************)
(* Texts and their bytes.                                                  *)
(***************************************************************************)
Pieces(text) == [i \in DOMAIN text |-> CharBytes(text[i])]

LEMMA PiecesType ==
    ASSUME NEW t \in Seq(Char)
    PROVE  /\ Pieces(t) \in Seq(Seq(Byte)) /\ Len(Pieces(t)) = Len(t) /\ Len(t) \in Nat
           /\ \A i \in 1 .. Len(t) : Pieces(t)[i] = CharBytes(t[i]) /\ t[i] \in Char
           /\ Utf8(t) = Concat(Pieces(t))
<1>1. DOMAIN t = 1 .. Len(t) /\ Len(t) \in Nat /\ \A i \in 1 .. Len(t) : t[i] \in Char
  OBVIOUS
<1>2. \A i \in 1 .. Len(t) : CharBytes(t[i]) \in Seq(Byte)
  BY <1>1, CharBytesType
<1>3. Pieces(t) \in [1 .. Len(t) -> Seq(Byte)]
  BY <1>1, <1>2 DEF Pieces
<1>4. Pieces(t) \in Seq(Seq(Byte)) /\ Len(Pieces(t)) = Len(t)
  BY <1>1, <1>3
<1>5. \A i \in 1 .. Len(t) : Pieces(t)[i] = CharBytes(t[i])
  BY <1>1 DEF Pieces
<1>6. Utf8(t) = Concat(Pieces(t))
  BY DEF Utf8, Pieces
<1> QED
  BY <1>1, <1>4, <1>5, <1>6

LEMMA Utf8Type ==
    ASSUME NEW t \in Seq(Char)
    PROVE  Utf8(t) \in Seq(Byte) /\ Len(t) <= Len(Utf8(t)) /\ Len(Utf8(t)) <= 3 * Len(t)
<1>1. /\ Pieces(t) \in Seq(Seq(Byte)) /\ Len(Pieces(t)) = Len(t)
      /\ \A i \in 1 .. Len(t) : Pieces(t)[i] = CharBytes(t[i]) /\ t[i] \in Char
      /\ Utf8(t) = Concat(Pieces(t))
  BY PiecesType
<1>2. \A i \in 1 .. Len(Pieces(t)) : Len(Pieces(t)[i]) \in 1 .. 3
  BY <1>1, CharBytesType
<1>3. /\ \A i \in 1 .. Len(Pieces(t)) : Len(Pieces(t)[i]) <= 3
      /\ \A i \in 1 .. Len(Pieces(t)) : Len(Pieces(t)[i]) >= 1
  <2>1. \A n : n \in 1 .. 3 => n <= 3 /\ n >= 1
    OBVIOUS
  <2> QED
    BY <1>2, <2>1, Zenon
<1>4. Concat(Pieces(t)) \in Seq(Byte)
  BY <1>1, ConcatType
<1> QED
  BY <1>1, <1>3, <1>4, ConcatLength

LEMMA Utf8Cat ==
    ASSUME NEW s \in Seq(Char), NEW t \in Seq(Char)
    PROVE  Utf8(s \o t) = Utf8(s) \o Utf8(t)
<1> DEFINE st == s \o t
<1>1. /\ Pieces(s) \in Seq(Seq(Byte)) /\ Len(Pieces(s)) = Len(s) /\ Len(s) \in Nat
      /\ \A i \in 1 .. Len(s) : Pieces(s)[i] = CharBytes(s[i])
      /\ Utf8(s) = Concat(Pieces(s))
  BY PiecesType
<1>2. /\ Pieces(t) \in Seq(Seq(Byte)) /\ Len(Pieces(t)) = Len(t) /\ Len(t) \in Nat
      /\ \A i \in 1 .. Len(t) : Pieces(t)[i] = CharBytes(t[i])
      /\ Utf8(t) = Concat(Pieces(t))
  BY PiecesType
<1>3. /\ st \in Seq(Char) /\ Len(st) = Len(s) + Len(t)
      /\ \A i \in 1 .. Len(s) : st[i] = s[i]
      /\ \A i \in 1 .. Len(t) : st[Len(s) + i] = t[i]
  BY <1>1, <1>2
<1> HIDE DEF st
<1>4. /\ Pieces(st) \in Seq(Seq(Byte)) /\ Len(Pieces(st)) = Len(st)
      /\ \A i \in 1 .. Len(st) : Pieces(st)[i] = CharBytes(st[i])
      /\ Utf8(st) = Concat(Pieces(st))
  BY <1>3, PiecesType
<1> DEFINE both == Pieces(s) \o Pieces(t)
<1>5. /\ both \in Seq(Seq(Byte)) /\ Len(both) = Len(s) + Len(t)
      /\ \A i \in 1 .. Len(s) : both[i] = Pieces(s)[i]
      /\ \A i \in 1 .. Len(t) : both[Len(s) + i] = Pieces(t)[i]
  <2> DEFINE p == Pieces(s)
             q == Pieces(t)
             S == Seq(Byte)
  <2>1. p \in Seq(S) /\ q \in Seq(S) /\ Len(p) = Len(s) /\ Len(q) = Len(t)
    BY <1>1, <1>2
  <2> HIDE DEF p, q, S
  <2>0. p \in Seq(S) /\ q \in Seq(S)
    BY <2>1
  <2>2. /\ p \o q \in Seq(S) /\ Len(p \o q) = Len(p) + Len(q)
        /\ \A i \in 1 .. Len(p) : (p \o q)[i] = p[i]
        /\ \A i \in 1 .. Len(q) : (p \o q)[Len(p) + i] = q[i]
    BY <2>0, CatFacts
  <2> QED
    BY <2>1, <2>2 DEF p, q, S
<1>6. ASSUME NEW i \in 1 .. Len(st) PROVE Pieces(st)[i] = both[i]
  <2> HIDE DEF both
  <2>1. CASE i <= Len(s)
    <3>1. i \in 1 .. Len(s)
      BY <1>1, <2>1
    <3> QED
      BY <1>1, <1>3, <1>4, <1>5, <3>1
  <2>2. CASE i > Len(s)
    <3> DEFINE j == i - Len(s)
    <3>1. j \in 1 .. Len(t) /\ i = Len(s) + j
      BY <1>1, <1>2, <1>3, <2>2
    <3> HIDE DEF j
    <3> QED
      BY <1>2, <1>3, <1>4, <1>5, <3>1
  <2> QED
    BY <1>1, <2>1, <2>2
<1>7. Pieces(st) = both
  <2> HIDE DEF both
  <2> QED
    BY <1>3, <1>4, <1>5, <1>6, SeqEqual
<1>8. Concat(both) = Concat(Pieces(s)) \o Concat(Pieces(t))
  BY <1>1, <1>2, ConcatPlus
<1> QED
  BY <1>1, <1>2, <1>4, <1>7, <1>8 DEF st

LEMMA Utf8Single ==
    ASSUME NEW c \in Char
    PROVE  Utf8(<<c>>) = CharBytes(c)
<1> DEFINE t == <<c>>
           p == Pieces(t)
<1>1. t \in Seq(Char) /\ Len(t) = 1 /\ t[1] = c
  OBVIOUS
<1> HIDE DEF t, p
<1>2. p \in Seq(Seq(Byte)) /\ Len(p) = 1 /\ p[1] = CharBytes(c) /\ Utf8(t) = Concat(p)
  BY <1>1, PiecesType DEF p
<1>3. p = <<CharBytes(c)>>
  BY <1>2
<1>4. Concat(<<CharBytes(c)>>) = CharBytes(c)
  BY CharBytesType, ConcatSingle
<1> QED
  BY <1>2, <1>3, <1>4 DEF t

LEMMA Utf8Empty == Utf8(<< >>) = << >>
<1>1. << >> \in Seq(Char) /\ Len(<< >>) = 0
  OBVIOUS
<1>2. Len(Utf8(<< >>)) <= 3 * 0 /\ Utf8(<< >>) \in Seq(Byte)
  BY <1>1, Utf8Type
<1> DEFINE u == Utf8(<< >>)
<1> HIDE DEF u
<1>3. u = << >>
  BY <1>2 DEF u
<1> QED
  BY <1>3 DEF u

\* A text is read from its bytes as it was.
LEMMA ReadsBack ==
    ASSUME NEW text \in Seq(Char)
    PROVE  Chars(Utf8(text)) = text
<1> DEFINE P(n) == \A t \in Seq(Char) : Len(t) = n => Chars(Utf8(t)) = t
<1>1. P(0)
  <2>1. \A t \in Seq(Char) : Len(t) = 0 => t = << >>
    OBVIOUS
  <2>2. Chars(<< >>) = << >>
    <3> DEFINE e == [i \in DOMAIN << >> |-> IF Begins(<< >>, i) THEN <<CharAt(<< >>, i)>> ELSE << >>]
    <3>1. e = << >>
      OBVIOUS
    <3>2. Chars(<< >>) = Concat(e)
      BY DEF Chars
    <3> HIDE DEF e
    <3> QED
      BY <3>1, <3>2, ConcatEmpty
  <2> QED
    BY <2>1, <2>2, Utf8Empty
<1>2. ASSUME NEW n \in Nat, P(n) PROVE P(n + 1)
  <2> SUFFICES ASSUME NEW t \in Seq(Char), Len(t) = n + 1 PROVE Chars(Utf8(t)) = t
    OBVIOUS
  <2> DEFINE c == Head(t)
             u == Tail(t)
  <2>1. t # << >>
    OBVIOUS
  <2>2. c \in Char /\ u \in Seq(Char) /\ Len(u) = n /\ t = <<c>> \o u
    BY <2>1
  <2> HIDE DEF c, u
  <2>3. Utf8(t) = CharBytes(c) \o Utf8(u)
    <3>1. <<c>> \in Seq(Char)
      BY <2>2
    <3> QED
      BY <2>2, <3>1, Utf8Cat, Utf8Single
  <2>4. Utf8(u) \in Seq(Byte)
    BY <2>2, Utf8Type
  <2>5. Chars(Utf8(t)) = <<c>> \o Chars(Utf8(u))
    BY <2>2, <2>3, <2>4, CharsPrefix
  <2>6. Chars(Utf8(u)) = u
    BY <1>2, <2>2
  <2> QED
    BY <2>2, <2>5, <2>6
<1>3. \A n \in Nat : P(n)
  <2> DEFINE T == {n \in Nat : P(n)}
  <2> HIDE DEF P
  <2>1. T \in SUBSET Nat /\ 0 \in T /\ \A n \in T : n + 1 \in T
    BY <1>1, <1>2
  <2>2. \A n \in Nat : n \in T
    <3> HIDE DEF T
    <3> QED
      BY <2>1, Induction
  <2> QED
    BY <2>2
<1>4. Len(text) \in Nat /\ P(Len(text))
  <2>1. Len(text) \in Nat
    OBVIOUS
  <2> HIDE DEF P
  <2> QED
    BY <1>3, <2>1
<1> QED
  BY <1>4

LEMMA CharsType ==
    ASSUME NEW b \in Seq(Byte)
    PROVE  Chars(b) \in Seq(Char \cup {NoChar}) /\ Len(Chars(b)) <= Len(b)
<1> DEFINE S == Char \cup {NoChar}
           p == [i \in DOMAIN b |-> IF Begins(b, i) THEN <<CharAt(b, i)>> ELSE << >>]
<1>0. DOMAIN b = 1 .. Len(b) /\ Len(b) \in Nat
  OBVIOUS
<1>1. ASSUME NEW i \in 1 .. Len(b)
      PROVE  p[i] \in Seq(S) /\ Len(p[i]) <= 1
  <2>1. CharAt(b, i) \in S
    BY CharAtType
  <2>2. p[i] = <<CharAt(b, i)>> \/ p[i] = << >>
    BY <1>0
  <2> DEFINE c == CharAt(b, i)
             q == p[i]
  <2> HIDE DEF S, c, q
  <2>3. c \in S /\ (q = <<c>> \/ q = << >>)
    BY <2>1, <2>2 DEF c, q
  <2>4. q \in Seq(S) /\ Len(q) <= 1
    <3>1. CASE q = <<c>>
      BY <2>3, <3>1
    <3>2. CASE q = << >>
      <4>1. << >> \in Seq(S) /\ Len(<< >>) <= 1
        OBVIOUS
      <4> QED
        BY <3>2, <4>1
    <3> QED
      BY <2>3, <3>1, <3>2
  <2> QED
    BY <2>4 DEF q
<1>2. Chars(b) = Concat(p)
  BY DEF Chars
<1>3. p \in [1 .. Len(b) -> Seq(S)]
  <2>1. DOMAIN p = 1 .. Len(b) /\ p = [i \in DOMAIN p |-> p[i]]
    BY <1>0
  <2> HIDE DEF p, S
  <2> QED
    BY <1>1, <2>1
<1> HIDE DEF p, S
<1>4. p \in Seq(Seq(S)) /\ Len(p) = Len(b)
  BY <1>0, <1>3
<1>5. Concat(p) \in Seq(S)
  BY <1>4, ConcatType
<1>6. \A i \in 1 .. Len(p) : Len(p[i]) <= 1
  BY <1>1, <1>4
<1>7. Len(Concat(p)) <= Len(p)
  BY <1>4, <1>6, ConcatLength
<1> QED
  BY <1>2, <1>4, <1>5, <1>7 DEF S

LEMMA ToSetCat ==
    ASSUME NEW S, NEW s \in Seq(S), NEW t \in Seq(S)
    PROVE  ToSet(s \o t) = ToSet(s) \cup ToSet(t)
<1>1. /\ Len(s) \in Nat /\ Len(t) \in Nat
      /\ s \o t \in Seq(S) /\ Len(s \o t) = Len(s) + Len(t)
      /\ \A i \in 1 .. Len(s) : (s \o t)[i] = s[i]
      /\ \A i \in 1 .. Len(t) : (s \o t)[Len(s) + i] = t[i]
  BY CatFacts
<1>2. /\ DOMAIN s = 1 .. Len(s) /\ DOMAIN t = 1 .. Len(t)
      /\ DOMAIN (s \o t) = 1 .. Len(s) + Len(t)
  BY <1>1
<1>3. ASSUME NEW i \in 1 .. Len(s) + Len(t) PROVE (s \o t)[i] \in ToSet(s) \cup ToSet(t)
  <2>1. CASE i <= Len(s)
    <3>1. i \in 1 .. Len(s)
      BY <1>1, <2>1
    <3> QED
      BY <1>1, <1>2, <3>1 DEF ToSet
  <2>2. CASE i > Len(s)
    <3> DEFINE j == i - Len(s)
    <3>1. j \in 1 .. Len(t) /\ i = Len(s) + j
      BY <1>1, <2>2
    <3> HIDE DEF j
    <3> QED
      BY <1>1, <1>2, <3>1 DEF ToSet
  <2> QED
    BY <1>1, <2>1, <2>2
<1>4. ASSUME NEW i \in 1 .. Len(s) PROVE s[i] \in ToSet(s \o t)
  <2>1. i \in DOMAIN (s \o t)
    BY <1>1, <1>2
  <2> QED
    BY <1>1, <2>1 DEF ToSet
<1>5. ASSUME NEW i \in 1 .. Len(t) PROVE t[i] \in ToSet(s \o t)
  <2>1. Len(s) + i \in DOMAIN (s \o t)
    BY <1>1, <1>2
  <2> QED
    BY <1>1, <2>1 DEF ToSet
<1> QED
  BY <1>2, <1>3, <1>4, <1>5 DEF ToSet

LEMMA ToSetSingle == \A x : ToSet(<<x>>) = {x}
<1> TAKE x
<1>1. DOMAIN <<x>> = {1} /\ <<x>>[1] = x
  OBVIOUS
<1> QED
  BY <1>1 DEF ToSet

LEMMA FirstIsChar ==
    ASSUME NEW b \in Seq(Byte), Len(b) > 0, IsUtf8(b)
    PROVE  CharLength(b, 1) # 0
<1> SUFFICES ASSUME CharLength(b, 1) = 0 PROVE FALSE
  OBVIOUS
<1> DEFINE S == Char \cup {NoChar}
           p == [i \in DOMAIN b |-> IF Begins(b, i) THEN <<CharAt(b, i)>> ELSE << >>]
           q == [i \in 1 .. Len(b) - 1 |-> p[i + 1]]
<1>1. DOMAIN b = 1 .. Len(b) /\ Len(b) \in Nat /\ 1 \in DOMAIN b
  OBVIOUS
<1>2. ASSUME NEW i \in 1 .. Len(b) PROVE p[i] \in Seq(S)
  <2>1. CharAt(b, i) \in S
    BY CharAtType
  <2>2. p[i] = <<CharAt(b, i)>> \/ p[i] = << >>
    BY <1>1
  <2> DEFINE c == CharAt(b, i)
             r == p[i]
  <2> HIDE DEF S, c, r
  <2>3. c \in S /\ (r = <<c>> \/ r = << >>)
    BY <2>1, <2>2 DEF c, r
  <2>4. CASE r = <<c>>
    BY <2>3, <2>4 DEF r
  <2>5. CASE r = << >>
    <3>1. << >> \in Seq(S)
      OBVIOUS
    <3> QED
      BY <2>5, <3>1 DEF r
  <2> QED
    BY <2>3, <2>4, <2>5
<1>3. p[1] = <<NoChar>>
  <2>1. {1 - 2, 1 - 1} \cap DOMAIN b = {}
    BY <1>1
  <2>2. Begins(b, 1)
    BY <2>1 DEF Begins
  <2>3. CharAt(b, 1) = NoChar
    BY CharAtIs
  <2> QED
    BY <1>1, <2>2, <2>3
<1>4. Chars(b) = Concat(p)
  BY DEF Chars
<1>5. p \in [1 .. Len(b) -> Seq(S)]
  <2>1. DOMAIN p = 1 .. Len(b) /\ p = [i \in DOMAIN p |-> p[i]]
    BY <1>1
  <2> HIDE DEF p, S
  <2> QED
    BY <1>2, <2>1
<1> HIDE DEF p
<1>6. p \in Seq(Seq(S)) /\ Len(p) = Len(b)
  BY <1>1, <1>5
<1>7. q \in Seq(Seq(S)) /\ Len(q) = Len(b) - 1 /\ \A i \in 1 .. Len(b) - 1 : q[i] = p[i + 1]
  <2>1. \A i \in 1 .. Len(b) - 1 : p[i + 1] \in Seq(S)
    BY <1>1, <1>5
  <2> QED
    BY <1>1, <2>1
<1> HIDE DEF q, S
<1>8. <<NoChar>> \in Seq(S)
  BY DEF S
<1> DEFINE one == <<<<NoChar>>>>
<1>9. one \in Seq(Seq(S)) /\ Len(one) = 1 /\ one[1] = <<NoChar>>
  BY <1>8
<1>10. Concat(one) = <<NoChar>>
  BY <1>8, ConcatSingle
<1> HIDE DEF one
<1>11. p = one \o q
  <2> DEFINE both == one \o q
  <2>1. /\ both \in Seq(Seq(S)) /\ Len(both) = Len(p) /\ both[1] = one[1]
        /\ \A i \in 1 .. Len(b) - 1 : both[1 + i] = q[i]
    <3> DEFINE Z == Seq(S)
    <3>1. one \in Seq(Z) /\ q \in Seq(Z)
      BY <1>7, <1>9
    <3>2. Len(one) = 1 /\ Len(q) = Len(b) - 1 /\ Len(p) = Len(b) /\ Len(b) \in Nat
      BY <1>1, <1>6, <1>7, <1>9
    <3> HIDE DEF Z
    <3>3. /\ one \o q \in Seq(Z) /\ Len(one \o q) = Len(one) + Len(q)
          /\ \A i \in 1 .. Len(one) : (one \o q)[i] = one[i]
          /\ \A i \in 1 .. Len(q) : (one \o q)[Len(one) + i] = q[i]
      BY <3>1, CatFacts
    <3> HIDE DEF both
    <3> QED
      BY <3>2, <3>3 DEF both, Z
  <2> HIDE DEF both
  <2>2. ASSUME NEW i \in 1 .. Len(p) PROVE p[i] = both[i]
    <3>1. CASE i = 1
      BY <1>3, <1>9, <2>1, <3>1
    <3>2. CASE i # 1
      <4> DEFINE j == i - 1
      <4>1. j \in 1 .. Len(b) - 1 /\ i = 1 + j /\ i = j + 1
        BY <1>1, <1>6, <3>2
      <4> HIDE DEF j
      <4> QED
        BY <1>7, <2>1, <4>1
    <3> QED
      BY <3>1, <3>2
  <2>3. p = both
    BY <1>6, <2>1, <2>2, SeqEqual
  <2> QED
    BY <2>3 DEF both
<1>12. Concat(p) = <<NoChar>> \o Concat(q)
  BY <1>7, <1>9, <1>10, <1>11, ConcatPlus
<1>13. NoChar \in ToSet(Chars(b))
  <2> DEFINE s == <<NoChar>>
             t == Concat(q)
  <2>1. s \in Seq(S) /\ t \in Seq(S)
    BY <1>7, <1>8, ConcatType
  <2>2. ToSet(s) = {NoChar} /\ Chars(b) = s \o t
    BY <1>4, <1>12, ToSetSingle
  <2> HIDE DEF s, t
  <2>3. ToSet(s \o t) = ToSet(s) \cup ToSet(t)
    BY <2>1, ToSetCat
  <2> QED
    BY <2>2, <2>3
<1> QED
  BY <1>13 DEF IsUtf8

\* Bytes that are text are those of the text that is read.
LEMMA WritesBack ==
    ASSUME NEW bytes \in Seq(Byte), IsUtf8(bytes)
    PROVE  Chars(bytes) \in Seq(Char) /\ Utf8(Chars(bytes)) = bytes
<1> DEFINE P(n) == \A b \in Seq(Byte) : Len(b) <= n /\ IsUtf8(b) => \E t \in Seq(Char) : b = Utf8(t)
<1>1. P(0)
  <2> SUFFICES ASSUME NEW b \in Seq(Byte), Len(b) <= 0 PROVE \E t \in Seq(Char) : b = Utf8(t)
    OBVIOUS
  <2>1. b = << >> /\ << >> \in Seq(Char)
    OBVIOUS
  <2> QED
    BY <2>1, Utf8Empty
<1>2. ASSUME NEW n \in Nat, P(n) PROVE P(n + 1)
  <2> SUFFICES ASSUME NEW b \in Seq(Byte), Len(b) <= n + 1, IsUtf8(b)
               PROVE  \E t \in Seq(Char) : b = Utf8(t)
    OBVIOUS
  <2>1. Len(b) \in Nat
    OBVIOUS
  <2>2. CASE Len(b) <= n
    BY <1>2, <2>2
  <2>3. CASE ~(Len(b) <= n)
    <3> DEFINE c == CharAt(b, 1)
               k == CharLength(b, 1)
               r == SubSeq(b, k + 1, Len(b))
    <3>1. Len(b) = n + 1 /\ 1 \in 1 .. Len(b) /\ Len(b) > 0
      BY <2>1, <2>3
    <3>2. k # 0
      BY <3>1, FirstIsChar
    <3>3. k \in 1 .. 3 /\ 1 + k - 1 <= Len(b) /\ c \in Char /\ CharBytes(c) = SubSeq(b, 1, 1 + k - 1)
      BY <3>1, <3>2, CharReads
    <3> HIDE DEF k, c
    <3>4. 1 + k - 1 = k /\ k <= Len(b) /\ k >= 1 /\ k \in Nat
      BY <3>3
    <3>5. b = CharBytes(c) \o r
      <4>1. SubSeq(b, 1, k) \o SubSeq(b, k + 1, Len(b)) = SubSeq(b, 1, Len(b))
        BY <2>1, <3>1, <3>4, ConcatAdjacentSubSeq
      <4>2. SubSeq(b, 1, Len(b)) = b
        BY SubSeqFull
      <4> QED
        BY <3>3, <3>4, <4>1, <4>2
    <3>6. r \in Seq(Byte) /\ Len(r) <= n
      BY <2>1, <3>1, <3>4
    <3> HIDE DEF r
    <3>7. Chars(b) = <<c>> \o Chars(r)
      BY <3>3, <3>5, <3>6, CharsPrefix
    <3>8. IsUtf8(r)
      <4> DEFINE S == Char \cup {NoChar}
                 s == <<c>>
                 t == Chars(r)
      <4>1. s \in Seq(S) /\ t \in Seq(S)
        BY <3>3, <3>6, CharsType
      <4> HIDE DEF S, s, t
      <4>2. ToSet(s \o t) = ToSet(s) \cup ToSet(t)
        BY <4>1, ToSetCat
      <4>3. ToSet(t) \subseteq ToSet(Chars(b))
        BY <3>7, <4>2 DEF s, t
      <4> QED
        BY <4>3 DEF IsUtf8, t
    <3>9. PICK u \in Seq(Char) : r = Utf8(u)
      BY <1>2, <3>6, <3>8
    <3>10. <<c>> \in Seq(Char) /\ <<c>> \o u \in Seq(Char)
      BY <3>3
    <3>11. Utf8(<<c>> \o u) = CharBytes(c) \o Utf8(u)
      BY <3>3, <3>10, Utf8Cat, Utf8Single
    <3> QED
      BY <3>5, <3>9, <3>10, <3>11
  <2> QED
    BY <2>2, <2>3
<1>3. \A n \in Nat : P(n)
  <2> DEFINE T == {n \in Nat : P(n)}
  <2> HIDE DEF P
  <2>1. T \in SUBSET Nat /\ 0 \in T /\ \A n \in T : n + 1 \in T
    BY <1>1, <1>2
  <2>2. \A n \in Nat : n \in T
    <3> HIDE DEF T
    <3> QED
      BY <2>1, Induction
  <2> QED
    BY <2>2
<1>4. Len(bytes) \in Nat /\ P(Len(bytes))
  <2>1. Len(bytes) \in Nat
    OBVIOUS
  <2> HIDE DEF P
  <2> QED
    BY <1>3, <2>1
<1>5. PICK t \in Seq(Char) : bytes = Utf8(t)
  BY <1>4
<1> QED
  BY <1>5, ReadsBack

-----------------------------------------------------------------------------
(***************************************************************************)
(* Numbers and their bytes.                                                *)
(***************************************************************************)
Values(f, b, n) == [i \in 0 .. n |-> IF i = 0 THEN 0 ELSE f[i - 1] * 256 + b[i]]

LEMMA ValuesFixed ==
    ASSUME NEW b
    PROVE  \A n \in Nat : \E f : f = Values(f, b, n)
<1> DEFINE P(n) == \E f : f = Values(f, b, n)
<1>1. P(0)
  <2> DEFINE f == [i \in 0 .. 0 |-> 0]
  <2>1. f = Values(f, b, 0)
    BY DEF Values
  <2> QED
    BY <2>1
<1>2. ASSUME NEW n \in Nat, P(n) PROVE P(n + 1)
  <2>1. PICK f : f = Values(f, b, n)
    BY <1>2
  <2> DEFINE g == [i \in 0 .. n + 1 |-> IF i = n + 1 THEN f[n] * 256 + b[n + 1] ELSE f[i]]
  <2>2. ASSUME NEW i \in 0 .. n + 1 PROVE g[i] = Values(g, b, n + 1)[i]
    <3>1. CASE i = n + 1
      <4>1. i # 0 /\ i - 1 = n /\ n \in 0 .. n + 1 /\ n # n + 1
        BY <3>1
      <4>2. g[i] = f[n] * 256 + b[n + 1] /\ g[n] = f[n]
        BY <3>1, <4>1
      <4> HIDE DEF g
      <4> QED
        BY <3>1, <4>1, <4>2 DEF Values
    <3>2. CASE i = 0
      <4>1. f[0] = 0 /\ 0 # n + 1
        BY <2>1 DEF Values
      <4>2. g[i] = 0
        BY <3>2, <4>1
      <4> HIDE DEF g
      <4> QED
        BY <3>2, <4>2 DEF Values
    <3>3. CASE i # n + 1 /\ i # 0
      <4>1. i \in 0 .. n /\ i - 1 \in 0 .. n + 1 /\ i - 1 # n + 1
        BY <3>3
      <4>2. g[i] = f[i] /\ g[i - 1] = f[i - 1]
        BY <3>3, <4>1
      <4>3. f[i] = f[i - 1] * 256 + b[i]
        BY <2>1, <3>3, <4>1 DEF Values
      <4> HIDE DEF g
      <4> QED
        BY <3>3, <4>2, <4>3 DEF Values
    <3> QED
      BY <3>1, <3>2, <3>3
  <2>3. g = Values(g, b, n + 1)
    <3>1. g = [i \in 0 .. n + 1 |-> g[i]] /\ Values(g, b, n + 1) = [i \in 0 .. n + 1 |-> Values(g, b, n + 1)[i]]
      BY DEF Values
    <3> HIDE DEF g
    <3> QED
      BY <2>2, <3>1
  <2> QED
    BY <2>3
<1> DEFINE T == {n \in Nat : P(n)}
<1> HIDE DEF P
<1>3. T \in SUBSET Nat /\ 0 \in T /\ \A n \in T : n + 1 \in T
  BY <1>1, <1>2
<1>4. \A n \in Nat : n \in T
  <2> HIDE DEF T
  <2> QED
    BY <1>3, Induction
<1> QED
  BY <1>4 DEF P

LEMMA NumberIs ==
    ASSUME NEW b, Len(b) \in Nat
    PROVE  \E f : /\ Number(b) = f[Len(b)] /\ f[0] = 0
                  /\ \A i \in 1 .. Len(b) : f[i] = f[i - 1] * 256 + b[i]
<1> DEFINE f == CHOOSE g : g = Values(g, b, Len(b))
<1>1. Number(b) = f[Len(b)]
  BY Zenon DEF Number, Values
<1>2. f = Values(f, b, Len(b))
  BY ValuesFixed
<1> HIDE DEF f
<1>3. f[0] = 0
  BY <1>2 DEF Values
<1>4. ASSUME NEW i \in 1 .. Len(b) PROVE f[i] = f[i - 1] * 256 + b[i]
  <2>1. i \in 0 .. Len(b) /\ i # 0
    OBVIOUS
  <2> QED
    BY <1>2, <2>1 DEF Values
<1> QED
  BY <1>1, <1>3, <1>4

LEMMA NumberOf ==
    ASSUME NEW b \in Seq(Byte)
    PROVE  /\ Len(b) = 1 => Number(b) = b[1]
           /\ Len(b) = 2 => Number(b) = b[1] * 256 + b[2]
           /\ Len(b) = 4 => Number(b) = ((b[1] * 256 + b[2]) * 256 + b[3]) * 256 + b[4]
<1>1. Len(b) \in Nat /\ \A i \in 1 .. Len(b) : b[i] \in Int
  <2>1. Len(b) \in Nat /\ \A i \in 1 .. Len(b) : b[i] \in Byte
    OBVIOUS
  <2>2. \A x \in Byte : x \in Int
    BY DEF Byte
  <2> QED
    BY <2>1, <2>2
<1>2. PICK f : /\ Number(b) = f[Len(b)] /\ f[0] = 0
               /\ \A i \in 1 .. Len(b) : f[i] = f[i - 1] * 256 + b[i]
  BY <1>1, NumberIs
<1>3. ASSUME Len(b) >= 1 PROVE f[1] = b[1]
  <2>1. f[1] = f[1 - 1] * 256 + b[1] /\ b[1] \in Int
    BY <1>1, <1>2, <1>3
  <2> QED
    BY <1>2, <2>1
<1>4. ASSUME Len(b) >= 2 PROVE f[2] = b[1] * 256 + b[2]
  <2>1. f[2] = f[2 - 1] * 256 + b[2] /\ f[1] = b[1]
    BY <1>1, <1>2, <1>3, <1>4
  <2> QED
    BY <2>1
<1>5. ASSUME Len(b) = 4 PROVE f[4] = ((b[1] * 256 + b[2]) * 256 + b[3]) * 256 + b[4]
  <2>1. f[2] = b[1] * 256 + b[2] /\ f[3] = f[3 - 1] * 256 + b[3] /\ f[4] = f[4 - 1] * 256 + b[4]
    BY <1>2, <1>4, <1>5
  <2>2. f[3] = (b[1] * 256 + b[2]) * 256 + b[3]
    BY <2>1
  <2> QED
    BY <2>1, <2>2
<1> QED
  BY <1>2, <1>3, <1>4, <1>5

LEMMA WeightIs ==
    /\ Weight[1] = 1 /\ Weight[2] = 256 /\ Weight[3] = 65536 /\ Weight[4] = 16777216
    /\ \A k \in 1 .. 4 : Weight[k] \in Nat \ {0}
BY DEF Weight

LEMMA BigType ==
    ASSUME NEW n \in Nat, NEW w \in {1, 2, 4}
    PROVE  Big(n, w) \in Seq(Byte) /\ Len(Big(n, w)) = w
<1>1. ASSUME NEW e \in Nat \ {0} PROVE (n \div e) % 256 \in Byte
  <2>1. n \div e \in Nat
    OBVIOUS
  <2> DEFINE d == n \div e
  <2> HIDE DEF d
  <2>2. d % 256 \in 0 .. 255
    BY <2>1 DEF d
  <2> QED
    BY <2>2 DEF d, Byte
<1>2. \A i \in 1 .. w : w - i + 1 \in 1 .. 4
  OBVIOUS
<1>3. \A i \in 1 .. w : (n \div Weight[w - i + 1]) % 256 \in Byte
  BY <1>1, <1>2, WeightIs
<1>4. Big(n, w) \in [1 .. w -> Byte]
  BY <1>3 DEF Big
<1> DEFINE b == Big(n, w)
<1> HIDE DEF b
<1>5. b \in Seq(Byte) /\ Len(b) = w
  BY <1>4 DEF b
<1> QED
  BY <1>5 DEF b

LEMMA Bytes4 ==
    ASSUME NEW n \in Nat
    PROVE  /\ n = 256 * (n \div 256) + (n % 256)
           /\ n \div 65536 = (n \div 256) \div 256
           /\ n \div 16777216 = ((n \div 256) \div 256) \div 256
<1> DEFINE a == n \div 256
           r == n % 256
           b == a \div 256
           s == a % 256
           c == b \div 256
           t == b % 256
<1>1. a \in Nat /\ r \in 0 .. 255 /\ n = 256 * a + r
  OBVIOUS
<1> HIDE DEF a, r
<1>2. b \in Nat /\ s \in 0 .. 255 /\ a = 256 * b + s
  BY <1>1
<1> HIDE DEF b, s
<1>3. c \in Nat /\ t \in 0 .. 255 /\ b = 256 * c + t
  BY <1>2
<1> HIDE DEF c, t
<1> DEFINE y == 256 * s + r
           z == 65536 * t + y
<1>4. y \in Nat /\ y < 65536 /\ z \in Nat /\ z < 16777216
  <2>1. y \in Nat /\ y < 65536
    BY <1>1, <1>2
  <2>2. z \in Nat /\ z < 16777216
    BY <1>3, <2>1
  <2> QED
    BY <2>1, <2>2
<1>5. n = 65536 * b + y /\ n = 16777216 * c + z
  BY <1>1, <1>2, <1>3
<1> HIDE DEF y, z
<1>6. n \div 65536 = b
  BY <1>2, <1>4, <1>5
<1>7. n \div 16777216 = c
  BY <1>3, <1>4, <1>5
<1> QED
  BY <1>1, <1>6, <1>7 DEF a, b, c, r

\* A number of one, two or four bytes is read as it was.
LEMMA NumberBack ==
    ASSUME NEW n \in Nat, NEW w \in {1, 2, 4}, InWidth(n, w)
    PROVE  Number(Big(n, w)) = n
<1> DEFINE b == Big(n, w)
<1>1. b \in Seq(Byte) /\ Len(b) = w
  BY BigType
<1>2. \A i \in 1 .. w : b[i] = (n \div Weight[w - i + 1]) % 256
  BY DEF Big
<1> HIDE DEF b
<1>3. n \div 1 = n
  OBVIOUS
<1>4. Weight[1] = 1 /\ Weight[2] = 256 /\ Weight[3] = 65536 /\ Weight[4] = 16777216
  BY WeightIs
<1>5. CASE w = 1
  <2>1. 1 - 1 + 1 = 1
    OBVIOUS
  <2>2. b[1] = n % 256
    BY <1>2, <1>3, <1>4, <1>5, <2>1
  <2>3. n < 256
    BY <1>3, <1>4, <1>5, <2>1 DEF InWidth
  <2>4. n % 256 = n
    BY <2>3
  <2> QED
    BY <1>1, <1>5, <2>2, <2>4, NumberOf DEF b
<1>6. CASE w = 2
  <2>1. 2 - 1 + 1 = 2 /\ 2 - 2 + 1 = 1
    OBVIOUS
  <2> DEFINE a == n \div 256
  <2>2. b[1] = a % 256 /\ b[2] = n % 256
    BY <1>2, <1>3, <1>4, <1>6, <2>1
  <2>3. a < 256 /\ a \in Nat
    BY <1>4, <1>6, <2>1 DEF InWidth
  <2>4. n = 256 * a + (n % 256) /\ n % 256 \in 0 .. 255
    BY Bytes4
  <2> HIDE DEF a
  <2>5. a % 256 = a
    BY <2>3
  <2>6. Number(b) = b[1] * 256 + b[2]
    BY <1>1, <1>6, NumberOf
  <2> QED
    BY <2>2, <2>3, <2>4, <2>5, <2>6 DEF b
<1>7. CASE w = 4
  <2>1. 4 - 1 + 1 = 4 /\ 4 - 2 + 1 = 3 /\ 4 - 3 + 1 = 2 /\ 4 - 4 + 1 = 1
    OBVIOUS
  <2> DEFINE a == n \div 256
             r == n % 256
             e == a \div 256
             s == a % 256
             c == e \div 256
             t == e % 256
  <2>2. b[1] = c % 256 /\ b[2] = t /\ b[3] = s /\ b[4] = r
    <3>1. /\ b[1] = (n \div 16777216) % 256 /\ b[2] = (n \div 65536) % 256
          /\ b[3] = (n \div 256) % 256 /\ b[4] = n % 256
      BY <1>2, <1>3, <1>4, <1>7, <2>1
    <3> QED
      BY <3>1, Bytes4
  <2>3. c < 256
    <3>1. n \div 16777216 < 256
      BY <1>4, <1>7, <2>1 DEF InWidth
    <3> QED
      BY <3>1, Bytes4
  <2>4. a \in Nat /\ r \in 0 .. 255 /\ n = 256 * a + r
    OBVIOUS
  <2> HIDE DEF a, r
  <2>5. e \in Nat /\ s \in 0 .. 255 /\ a = 256 * e + s
    BY <2>4
  <2> HIDE DEF e, s
  <2>6. c \in Nat /\ t \in 0 .. 255 /\ e = 256 * c + t
    BY <2>5
  <2> HIDE DEF c, t
  <2>7. c % 256 = c
    BY <2>3, <2>6
  <2>8. Number(b) = ((b[1] * 256 + b[2]) * 256 + b[3]) * 256 + b[4]
    BY <1>1, <1>7, NumberOf
  <2>9. ((c * 256 + t) * 256 + s) * 256 + r = n
    BY <2>4, <2>5, <2>6
  <2> QED
    BY <2>2, <2>7, <2>8, <2>9 DEF b
<1> QED
  BY <1>5, <1>6, <1>7

-----------------------------------------------------------------------------
(***************************************************************************)
(* Fields of text: filled up with NUL, and stripped of it.                 *)
(***************************************************************************)
NULs(n) == [i \in 1 .. n |-> NUL]

LEMMA NULsType ==
    ASSUME NEW S, NUL \in S, NEW n \in Nat
    PROVE  NULs(n) \in Seq(S) /\ Len(NULs(n)) = n /\ \A i \in 1 .. n : NULs(n)[i] = NUL
BY DEF NULs

LEMMA NULIs == NUL \in Byte /\ NUL \in Char /\ NUL \in Int
BY DEF NUL, Byte, Char

LEMMA FitType ==
    ASSUME NEW S, NUL \in S, NEW s \in Seq(S), NEW w \in Nat
    PROVE  Fit(s, w) \in Seq(S) /\ Len(Fit(s, w)) = w
<1>1. \A i \in 1 .. w : (IF i <= Len(s) THEN s[i] ELSE NUL) \in S
  OBVIOUS
<1> QED
  BY <1>1 DEF Fit

LEMMA FitPads ==
    ASSUME NEW S, NUL \in S, NEW s \in Seq(S), NEW w \in Nat, Len(s) <= w
    PROVE  Fit(s, w) = s \o NULs(w - Len(s))
<1> DEFINE z == NULs(w - Len(s))
           f == Fit(s, w)
           g == s \o z
<1>1. Len(s) \in Nat /\ w - Len(s) \in Nat
  OBVIOUS
<1>2. z \in Seq(S) /\ Len(z) = w - Len(s) /\ \A i \in 1 .. w - Len(s) : z[i] = NUL
  BY <1>1, NULsType
<1>3. f \in Seq(S) /\ Len(f) = w
  BY FitType
<1>4. \A i \in 1 .. w : f[i] = IF i <= Len(s) THEN s[i] ELSE NUL
  BY DEF Fit
<1> HIDE DEF z, f
<1>5. s \in Seq(S) /\ z \in Seq(S)
  BY <1>2
<1>6. /\ g \in Seq(S) /\ Len(g) = Len(s) + Len(z)
      /\ \A i \in 1 .. Len(s) : g[i] = s[i]
      /\ \A i \in 1 .. Len(z) : g[Len(s) + i] = z[i]
  BY <1>5, CatFacts
<1> HIDE DEF g
<1>7. ASSUME NEW i \in 1 .. w PROVE f[i] = g[i]
  <2>1. CASE i <= Len(s)
    <3>1. i \in 1 .. Len(s)
      BY <1>1, <2>1
    <3> QED
      BY <1>4, <1>6, <2>1, <3>1
  <2>2. CASE ~(i <= Len(s))
    <3> DEFINE j == i - Len(s)
    <3>1. j \in 1 .. w - Len(s) /\ i = Len(s) + j
      BY <1>1, <2>2
    <3> HIDE DEF j
    <3>2. g[i] = NUL
      BY <1>2, <1>6, <3>1
    <3> QED
      BY <1>4, <2>2, <3>2
  <2> QED
    BY <2>1, <2>2
<1>8. Len(g) = w
  BY <1>1, <1>2, <1>6
<1>9. f = g
  BY <1>3, <1>6, <1>7, <1>8, SeqEqual
<1> QED
  BY <1>9 DEF f, g, z

LEMMA NULsCat ==
    ASSUME NEW m \in Nat, NEW n \in Nat
    PROVE  NULs(m + n) = NULs(m) \o NULs(n)
<1> DEFINE f == NULs(m)
           g == NULs(n)
           h == NULs(m + n)
           k == f \o g
<1>1. f \in Seq(Int) /\ Len(f) = m /\ \A i \in 1 .. m : f[i] = NUL
  BY NULsType, NULIs
<1>2. g \in Seq(Int) /\ Len(g) = n /\ \A i \in 1 .. n : g[i] = NUL
  BY NULsType, NULIs
<1>3. m + n \in Nat
  OBVIOUS
<1>4. h \in Seq(Int) /\ Len(h) = m + n /\ \A i \in 1 .. m + n : h[i] = NUL
  BY <1>3, NULsType, NULIs
<1> HIDE DEF f, g, h
<1>5. f \in Seq(Int) /\ g \in Seq(Int)
  BY <1>1, <1>2
<1>6. /\ k \in Seq(Int) /\ Len(k) = Len(f) + Len(g)
      /\ \A i \in 1 .. Len(f) : k[i] = f[i]
      /\ \A i \in 1 .. Len(g) : k[Len(f) + i] = g[i]
  BY <1>5, CatFacts
<1> HIDE DEF k
<1>7. ASSUME NEW i \in 1 .. m + n PROVE h[i] = k[i]
  <2>1. CASE i <= m
    <3>1. i \in 1 .. m
      BY <2>1
    <3> QED
      BY <1>1, <1>4, <1>6, <3>1
  <2>2. CASE ~(i <= m)
    <3> DEFINE j == i - m
    <3>1. j \in 1 .. n /\ i = m + j
      BY <2>2
    <3> HIDE DEF j
    <3>2. k[i] = g[j]
      BY <1>1, <1>2, <1>6, <3>1
    <3> QED
      BY <1>2, <1>4, <3>1, <3>2
  <2> QED
    BY <2>1, <2>2
<1>8. Len(k) = Len(h)
  BY <1>1, <1>2, <1>4, <1>6
<1>9. h = k
  BY <1>4, <1>6, <1>7, <1>8, SeqEqual
<1> QED
  BY <1>9 DEF f, g, h, k

LEMMA Utf8NULs == \A n \in Nat : Utf8(NULs(n)) = NULs(n)
<1> DEFINE T == {n \in Nat : Utf8(NULs(n)) = NULs(n)}
<1>1. 0 \in T
  <2>1. NULs(0) = << >>
    BY DEF NULs
  <2> QED
    BY <2>1, Utf8Empty
<1>2. ASSUME NEW n \in T PROVE n + 1 \in T
  <2>1. n \in Nat /\ 1 \in Nat /\ Utf8(NULs(n)) = NULs(n)
    OBVIOUS
  <2>2. NULs(n) \in Seq(Char) /\ NULs(1) \in Seq(Char)
    BY <2>1, NULsType, NULIs
  <2>3. NULs(n + 1) = NULs(n) \o NULs(1)
    BY <2>1, NULsCat
  <2>4. NULs(1) = <<NUL>>
    BY DEF NULs
  <2>5. CharBytes(NUL) = <<NUL>>
    BY DEF CharBytes, NUL
  <2>6. Utf8(NULs(1)) = NULs(1)
    BY <2>4, <2>5, NULIs, Utf8Single
  <2>7. Utf8(NULs(n) \o NULs(1)) = Utf8(NULs(n)) \o Utf8(NULs(1))
    BY <2>2, Utf8Cat
  <2>8. n + 1 \in Nat
    BY <2>1
  <2>9. Utf8(NULs(n + 1)) = Utf8(NULs(n) \o NULs(1))
    BY <2>3
  <2>10. Utf8(NULs(n + 1)) = NULs(n) \o NULs(1)
    BY <2>1, <2>6, <2>7, <2>9
  <2>11. Utf8(NULs(n + 1)) = NULs(n + 1)
    BY <2>3, <2>10
  <2> QED
    BY <2>8, <2>11
<1>3. T \in SUBSET Nat
  OBVIOUS
<1> HIDE DEF T
<1>4. \A n \in Nat : n \in T
  BY <1>1, <1>2, <1>3, Induction
<1> QED
  BY <1>4 DEF T
-----------------------------------------------------------------------------
Ends(text, n) ==
    /\ n = 0 \/ text[n] # NUL
    /\ \A i \in n + 1 .. Len(text) : text[i] = NUL

LEMMA StrippedAt ==
    ASSUME NEW S, NEW text \in Seq(S), NEW n \in 0 .. Len(text), Ends(text, n)
    PROVE  Stripped(text) = SubSeq(text, 1, n)
<1>1. Stripped(text) = SubSeq(text, 1, CHOOSE m \in 0 .. Len(text) : Ends(text, m))
  BY DEF Stripped, Ends
<1>2. ASSUME NEW m \in 0 .. Len(text), Ends(text, m) PROVE m = n
  <2>1. Len(text) \in Nat
    OBVIOUS
  <2>2. ~(m < n)
    <3> SUFFICES ASSUME m < n PROVE FALSE
      OBVIOUS
    <3>1. n \in m + 1 .. Len(text) /\ n # 0
      BY <2>1
    <3>2. text[n] = NUL
      BY <1>2, <3>1 DEF Ends
    <3> QED
      BY <3>1, <3>2 DEF Ends
  <2>3. ~(n < m)
    <3> SUFFICES ASSUME n < m PROVE FALSE
      OBVIOUS
    <3>1. m \in n + 1 .. Len(text) /\ m # 0
      BY <2>1
    <3>2. text[m] = NUL
      BY <3>1 DEF Ends
    <3> QED
      BY <1>2, <3>1, <3>2 DEF Ends
  <2> QED
    BY <2>1, <2>2, <2>3
<1>3. (CHOOSE m \in 0 .. Len(text) : Ends(text, m)) = n
  BY <1>2
<1> QED
  BY <1>1, <1>3

LEMMA EndsSomewhere ==
    ASSUME NEW S, NEW text \in Seq(S)
    PROVE  \E n \in 0 .. Len(text) : Ends(text, n)
<1> DEFINE T == {n \in 0 .. Len(text) : \A i \in n + 1 .. Len(text) : text[i] = NUL}
<1>0. Len(text) \in Nat
  OBVIOUS
<1>1. T \in SUBSET Nat /\ T # {}
  <2>1. Len(text) \in T
    BY <1>0
  <2>2. T \in SUBSET Nat
    BY <1>0
  <2> QED
    BY <2>1, <2>2
<1> HIDE DEF T
<1>2. PICK n \in T : \A m \in T : n <= m
  BY <1>1, LeastNatural
<1>3. n \in 0 .. Len(text) /\ \A i \in n + 1 .. Len(text) : text[i] = NUL
  BY DEF T
<1>4. n = 0 \/ text[n] # NUL
  <2> SUFFICES ASSUME n # 0, text[n] = NUL PROVE FALSE
    OBVIOUS
  <2>1. n - 1 \in 0 .. Len(text) /\ ~(n <= n - 1)
    BY <1>0, <1>3
  <2>2. ASSUME NEW i \in (n - 1) + 1 .. Len(text) PROVE text[i] = NUL
    <3>1. i = n \/ i \in n + 1 .. Len(text)
      BY <1>0, <1>3
    <3> QED
      BY <1>3, <3>1
  <2>3. n - 1 \in T
    BY <2>1, <2>2 DEF T
  <2> QED
    BY <1>2, <2>1, <2>3
<1> QED
  BY <1>3, <1>4 DEF Ends

LEMMA StrippedType ==
    ASSUME NEW S, NEW text \in Seq(S)
    PROVE  Stripped(text) \in Seq(S) /\ Len(Stripped(text)) <= Len(text)
<1>1. PICK n \in 0 .. Len(text) : Ends(text, n)
  BY EndsSomewhere
<1>2. Stripped(text) = SubSeq(text, 1, n)
  BY <1>1, StrippedAt
<1>3. SubSeq(text, 1, n) \in Seq(S) /\ Len(SubSeq(text, 1, n)) = n /\ n <= Len(text)
  BY <1>1
<1> QED
  BY <1>2, <1>3

\* What fills a field up is what is stripped from it.
LEMMA StripsBack ==
    ASSUME NEW S, NUL \in S, NEW text \in Seq(S), Stripped(text) = text, NEW n \in Nat
    PROVE  Stripped(text \o NULs(n)) = text
<1> DEFINE z == NULs(n)
           g == text \o z
<1>1. z \in Seq(S) /\ Len(z) = n /\ \A i \in 1 .. n : z[i] = NUL
  BY NULsType
<1> HIDE DEF z
<1>2. text \in Seq(S) /\ z \in Seq(S)
  BY <1>1
<1>3. /\ Len(text) \in Nat /\ g \in Seq(S) /\ Len(g) = Len(text) + Len(z)
      /\ \A i \in 1 .. Len(text) : g[i] = text[i]
      /\ \A i \in 1 .. Len(z) : g[Len(text) + i] = z[i]
  BY <1>2, CatFacts
<1>4. Ends(text, Len(text))
  <2>1. PICK m \in 0 .. Len(text) : Ends(text, m)
    BY EndsSomewhere
  <2>2. text = SubSeq(text, 1, m)
    BY <2>1, StrippedAt
  <2>3. Len(SubSeq(text, 1, m)) = m
    BY <2>1
  <2> QED
    BY <2>1, <2>2, <2>3
<1>5. SubSeq(g, 1, Len(text)) = text
  <2>1. g = text \o z
    OBVIOUS
  <2> DEFINE h == SubSeq(g, 1, Len(text))
  <2> HIDE DEF g
  <2>2. Len(h) = Len(text) /\ h \in Seq(S) /\ \A i \in 1 .. Len(text) : h[i] = g[i]
    <3>1. Len(text) <= Len(g) /\ g \in Seq(S) /\ Len(g) \in Nat
      BY <1>1, <1>3
    <3> QED
      BY <1>3, <3>1
  <2> HIDE DEF h
  <2>3. \A i \in 1 .. Len(h) : h[i] = text[i]
    BY <1>3, <2>2
  <2>4. h = text
    BY <2>2, <2>3, SeqEqual
  <2> QED
    BY <2>4 DEF h
<1> HIDE DEF g
<1>6. Ends(g, Len(text))
  <2>1. Len(text) = 0 \/ g[Len(text)] # NUL
    BY <1>3, <1>4 DEF Ends
  <2>2. ASSUME NEW i \in Len(text) + 1 .. Len(g) PROVE g[i] = NUL
    <3> DEFINE j == i - Len(text)
    <3>1. j \in 1 .. n /\ i = Len(text) + j
      BY <1>1, <1>3
    <3> HIDE DEF j
    <3> QED
      BY <1>1, <1>3, <3>1
  <2> QED
    BY <2>1, <2>2 DEF Ends
<1>7. Len(text) \in 0 .. Len(g)
  BY <1>1, <1>3
<1>8. Stripped(g) = SubSeq(g, 1, Len(text))
  BY <1>3, <1>6, <1>7, StrippedAt
<1> QED
  BY <1>5, <1>8 DEF g, z

-----------------------------------------------------------------------------
(***************************************************************************)
(* Split takes apart what Joined put together.                             *)
(***************************************************************************)
CutAt(text, i) == i \in {0, Len(text) + 1} \/ text[i] = NUL

LastCut(text, i, j) == CutAt(text, j) /\ \A n \in j + 1 .. i - 1 : ~CutAt(text, n)

CutBefore(text, i) == CHOOSE j \in 0 .. i - 1 : LastCut(text, i, j)

PartAt(text, i) ==
    IF CutAt(text, i) THEN <<SubSeq(text, CutBefore(text, i) + 1, i - 1)>> ELSE << >>

LEMMA SplitIs ==
    ASSUME NEW text
    PROVE  Split(text) = Concat([i \in 1 .. Len(text) + 1 |-> PartAt(text, i)])
BY DEF Split, PartAt, CutBefore, LastCut, CutAt

LEMMA CutBeforeIs ==
    ASSUME NEW S, NEW text \in Seq(S), NEW i \in 1 .. Len(text) + 1
    PROVE  CutBefore(text, i) \in 0 .. i - 1 /\ LastCut(text, i, CutBefore(text, i))
<1> DEFINE T == {n \in Nat : n <= i - 1 /\ CutAt(text, i - 1 - n)}
<1>0. Len(text) \in Nat /\ i \in Nat /\ i - 1 \in Nat
  OBVIOUS
<1>1. T \in SUBSET Nat /\ T # {}
  <2>1. (i - 1) - (i - 1) = 0
    BY <1>0
  <2>2. i - 1 \in T
    BY <1>0, <2>1 DEF CutAt
  <2> QED
    BY <2>2
<1> HIDE DEF T
<1>2. PICK n \in T : \A m \in T : n <= m
  BY <1>1, LeastNatural
<1>3. n \in Nat /\ n <= i - 1 /\ CutAt(text, i - 1 - n)
  BY DEF T
<1> DEFINE j == i - 1 - n
<1>4. j \in 0 .. i - 1
  BY <1>0, <1>3
<1>5. ASSUME NEW m \in j + 1 .. i - 1 PROVE ~CutAt(text, m)
  <2> SUFFICES ASSUME CutAt(text, m) PROVE FALSE
    OBVIOUS
  <2>1. /\ i - 1 - m \in Nat /\ i - 1 - m <= i - 1 /\ i - 1 - (i - 1 - m) = m
        /\ ~(n <= i - 1 - m)
    BY <1>0, <1>3
  <2>2. i - 1 - m \in T
    BY <2>1 DEF T
  <2> QED
    BY <1>2, <2>1, <2>2
<1>6. LastCut(text, i, j)
  BY <1>3, <1>5 DEF LastCut
<1> HIDE DEF j
<1> QED
  BY <1>4, <1>6 DEF CutBefore

LEMMA PartType ==
    ASSUME NEW S, NEW text \in Seq(S), NEW i \in 1 .. Len(text) + 1
    PROVE  /\ PartAt(text, i) \in Seq({s \in Seq(S) : Len(s) <= Len(text)})
           /\ CutAt(text, i) => Len(PartAt(text, i)) = 1
<1> DEFINE Q == {s \in Seq(S) : Len(s) <= Len(text)}
           p == SubSeq(text, CutBefore(text, i) + 1, i - 1)
<1>1. CutBefore(text, i) \in 0 .. i - 1
  BY CutBeforeIs
<1>2. p \in Q
  BY <1>1
<1> HIDE DEF Q, p
<1>3. <<p>> \in Seq(Q) /\ << >> \in Seq(Q) /\ Len(<<p>>) = 1
  BY <1>2
<1>4. PartAt(text, i) = IF CutAt(text, i) THEN <<p>> ELSE << >>
  BY DEF PartAt, p
<1> QED
  BY <1>3, <1>4 DEF Q

\* All parts but the last; all are in Q.
SplitInto(S, text, Q, parts, last) ==
    /\ Q = {s \in Seq(S) : Len(s) <= Len(text)}
    /\ parts = [i \in 1 .. Len(text) |-> PartAt(text, i)]
    /\ last = SubSeq(text, CutBefore(text, Len(text) + 1) + 1, Len(text))

LEMMA SplitLast ==
    ASSUME NEW S, NEW text \in Seq(S), NEW Q, NEW parts, NEW last,
           SplitInto(S, text, Q, parts, last)
    PROVE  /\ parts \in Seq(Seq(Q)) /\ last \in Q
           /\ Split(text) = Concat(parts) \o <<last>>
<1> DEFINE k == Len(text) + 1
           all == [i \in 1 .. k |-> PartAt(text, i)]
           one == <<<<last>>>>
<1>1. Len(text) \in Nat /\ k \in Nat /\ k - 1 = Len(text) /\ k \in 1 .. k
  OBVIOUS
<1>0. /\ Q = {s \in Seq(S) : Len(s) <= Len(text)}
      /\ parts = [i \in 1 .. Len(text) |-> PartAt(text, i)]
      /\ last = SubSeq(text, CutBefore(text, Len(text) + 1) + 1, Len(text))
  BY DEF SplitInto
<1>2. \A i \in 1 .. k : PartAt(text, i) \in Seq(Q)
  BY <1>0, PartType
<1>3. last \in Q /\ PartAt(text, k) = <<last>>
  <2>1. CutBefore(text, k) \in 0 .. k - 1
    BY <1>1, CutBeforeIs
  <2>2. last \in Q
    BY <1>0, <1>1, <2>1
  <2>3. CutAt(text, k)
    BY DEF CutAt
  <2> QED
    BY <1>0, <1>1, <2>2, <2>3 DEF PartAt
<1>4. parts \in Seq(Seq(Q)) /\ Len(parts) = Len(text)
  BY <1>0, <1>1, <1>2
<1>5. one \in Seq(Seq(Q)) /\ Len(one) = 1 /\ one[1] = <<last>>
  BY <1>3
<1>6. all \in Seq(Seq(Q)) /\ Len(all) = k
  BY <1>1, <1>2
<1> DEFINE both == parts \o one
<1>7. all = both
  <2>1. \A i \in 1 .. Len(text) : all[i] = parts[i]
    BY <1>0, <1>1
  <2>2. all[k] = <<last>>
    BY <1>1, <1>3
  <2> HIDE DEF all, one
  <2>3. parts \in Seq(Seq(Q)) /\ one \in Seq(Seq(Q))
    BY <1>4, <1>5
  <2>4. /\ both \in Seq(Seq(Q)) /\ Len(both) = Len(parts) + Len(one)
        /\ \A i \in 1 .. Len(parts) : both[i] = parts[i]
        /\ \A i \in 1 .. Len(one) : both[Len(parts) + i] = one[i]
    BY <2>3, CatFacts
  <2> HIDE DEF both
  <2>5. both[k] = <<last>> /\ Len(both) = k
    <3>1. 1 \in 1 .. Len(one)
      BY <1>5
    <3>2. both[Len(parts) + 1] = one[1]
      BY <2>4, <3>1
    <3> QED
      BY <1>1, <1>4, <1>5, <2>4, <3>2
  <2>6. ASSUME NEW i \in 1 .. k PROVE all[i] = both[i]
    <3>1. i = k \/ i \in 1 .. Len(text)
      BY <1>1
    <3> QED
      BY <1>4, <2>1, <2>2, <2>4, <2>5, <3>1
  <2> HIDE DEF k
  <2> QED
    BY <1>6, <2>4, <2>5, <2>6, SeqEqual
<1>8. Concat(both) = Concat(parts) \o Concat(one)
  <2>1. parts \in Seq(Seq(Q)) /\ one \in Seq(Seq(Q))
    BY <1>4, <1>5
  <2> HIDE DEF one
  <2> QED
    BY <2>1, ConcatPlus
<1>9. Concat(one) = <<last>>
  <2>1. <<last>> \in Seq(Q)
    BY <1>3
  <2> QED
    BY <2>1, ConcatSingle
<1>10. Split(text) = Concat(all)
  BY SplitIs
<1> QED
  BY <1>3, <1>4, <1>7, <1>8, <1>9, <1>10

LEMMA SplitType ==
    ASSUME NEW S, NEW text \in Seq(S)
    PROVE  /\ Split(text) \in Seq({s \in Seq(S) : Len(s) <= Len(text)})
           /\ Len(Split(text)) \in Nat \ {0}
<1> DEFINE Q == {s \in Seq(S) : Len(s) <= Len(text)}
           parts == [i \in 1 .. Len(text) |-> PartAt(text, i)]
           last == SubSeq(text, CutBefore(text, Len(text) + 1) + 1, Len(text))
           c == Concat(parts)
<1>0. SplitInto(S, text, Q, parts, last)
  BY DEF SplitInto
<1> HIDE DEF parts, last
<1>1. parts \in Seq(Seq(Q)) /\ last \in Q /\ Split(text) = Concat(parts) \o <<last>>
  <2> HIDE DEF Q
  <2> QED
    BY <1>0, SplitLast
<1> HIDE DEF Q
<1>2. c \in Seq(Q)
  BY <1>1, ConcatType
<1>3. <<last>> \in Seq(Q) /\ Len(<<last>>) = 1
  BY <1>1
<1> HIDE DEF c
<1>4. c \o <<last>> \in Seq(Q) /\ Len(c \o <<last>>) = Len(c) + 1 /\ Len(c) \in Nat
  BY <1>2, <1>3
<1> QED
  BY <1>1, <1>4 DEF Q, c

\* The last name is behind the last NUL.
LEMMA SplitOne ==
    ASSUME NEW S, NEW n \in Seq(S), \A i \in 1 .. Len(n) : n[i] # NUL
    PROVE  Split(n) = <<n>>
<1> DEFINE Q == {s \in Seq(S) : Len(s) <= Len(n)}
           parts == [i \in 1 .. Len(n) |-> PartAt(n, i)]
           last == SubSeq(n, CutBefore(n, Len(n) + 1) + 1, Len(n))
<1>0. /\ Q = {s \in Seq(S) : Len(s) <= Len(n)}
      /\ parts = [i \in 1 .. Len(n) |-> PartAt(n, i)]
      /\ last = SubSeq(n, CutBefore(n, Len(n) + 1) + 1, Len(n))
      /\ Len(n) \in Nat /\ Len(n) + 1 \in 1 .. Len(n) + 1
  OBVIOUS
<1>9. SplitInto(S, n, Q, parts, last)
  BY DEF SplitInto
<1>1. \A i \in 1 .. Len(n) : ~CutAt(n, i)
  BY DEF CutAt
<1>2. \A i \in 1 .. Len(parts) : parts[i] = << >>
  BY <1>1 DEF PartAt
<1> HIDE DEF Q, parts, last
<1>3. parts \in Seq(Seq(Q)) /\ last \in Q /\ Split(n) = Concat(parts) \o <<last>>
  BY <1>9, SplitLast
<1>4. Concat(parts) = << >>
  BY <1>2, <1>3, ConcatOfEmpty
<1>5. CutBefore(n, Len(n) + 1) = 0
  <2> DEFINE j == CutBefore(n, Len(n) + 1)
  <2>1. j \in 0 .. (Len(n) + 1) - 1 /\ LastCut(n, Len(n) + 1, j)
    BY <1>0, CutBeforeIs
  <2> HIDE DEF j
  <2>2. j = 0 \/ j \in 1 .. Len(n)
    BY <1>0, <2>1
  <2>3. j = 0
    BY <1>1, <2>1, <2>2 DEF LastCut
  <2> QED
    BY <2>3 DEF j
<1>6. SubSeq(n, 1, Len(n)) = n
  OBVIOUS
<1>7. last = n
  BY <1>0, <1>5, <1>6
<1>8. << >> \o <<last>> = <<last>>
  BY <1>3
<1> QED
  BY <1>3, <1>4, <1>7, <1>8

LEMMA SplitAppend ==
    ASSUME NEW S, NUL \in S, NEW t \in Seq(S), NEW n \in Seq(S),
           \A i \in 1 .. Len(n) : n[i] # NUL
    PROVE  Split(t \o (<<NUL>> \o n)) = Split(t) \o <<n>>
<1> DEFINE e == <<NUL>> \o n
           text == t \o e
           k == Len(t) + 1
<1>1. /\ e \in Seq(S) /\ Len(e) = Len(n) + 1 /\ e[1] = NUL
      /\ \A i \in 1 .. Len(n) : e[1 + i] = n[i]
      /\ Len(n) \in Nat
  OBVIOUS
<1> HIDE DEF e
<1>2. /\ text \in Seq(S) /\ Len(text) = Len(t) + Len(e) /\ Len(t) \in Nat
      /\ \A i \in 1 .. Len(t) : text[i] = t[i]
      /\ \A i \in 1 .. Len(e) : text[Len(t) + i] = e[i]
  <2>1. t \in Seq(S) /\ e \in Seq(S)
    BY <1>1
  <2> QED
    BY <2>1, CatFacts
<1> HIDE DEF text
<1>3. /\ Len(text) = k + Len(n) /\ k \in Nat /\ k = Len(t) + 1 /\ text[k] = NUL
      /\ \A i \in 1 .. Len(n) : text[k + i] = n[i]
  <2>1. Len(text) = k + Len(n) /\ k \in Nat /\ k = Len(t) + 1
    BY <1>1, <1>2
  <2>2. 1 \in 1 .. Len(e)
    BY <1>1
  <2>3. text[k] = NUL
    BY <1>1, <1>2, <2>2
  <2>4. ASSUME NEW i \in 1 .. Len(n) PROVE text[k + i] = n[i]
    <3>1. 1 + i \in 1 .. Len(e) /\ Len(t) + (1 + i) = k + i
      BY <1>1, <1>2
    <3>2. text[Len(t) + (1 + i)] = e[1 + i]
      BY <1>2, <3>1
    <3> QED
      BY <1>1, <3>1, <3>2
  <2> QED
    BY <2>1, <2>3, <2>4
<1> HIDE DEF k
\* Up to the last NUL the cuts are those of t.
<1>4. \A i \in 0 .. k : CutAt(text, i) <=> CutAt(t, i)
  <2> TAKE i \in 0 .. k
  <2>1. CASE i = 0
    BY <2>1 DEF CutAt
  <2>2. CASE i = k
    BY <1>3, <2>2 DEF CutAt
  <2>3. CASE i # 0 /\ i # k
    <3>1. i \in 1 .. Len(t) /\ i # Len(t) + 1 /\ i # Len(text) + 1
      BY <1>1, <1>2, <1>3, <2>3
    <3> QED
      BY <1>2, <3>1 DEF CutAt
  <2> QED
    BY <2>1, <2>2, <2>3
<1>5. ASSUME NEW i \in 1 .. k PROVE PartAt(text, i) = PartAt(t, i)
  <2>1. i \in 0 .. k /\ i \in 1 .. Len(t) + 1
    BY <1>3
  <2>2. \A j \in 0 .. i - 1 : LastCut(text, i, j) <=> LastCut(t, i, j)
    <3>1. \A j \in 0 .. i - 1 : j \in 0 .. k /\ \A m \in j + 1 .. i - 1 : m \in 0 .. k
      BY <1>3
    <3> QED
      BY <1>4, <3>1 DEF LastCut
  <2>3. CutBefore(text, i) = CutBefore(t, i)
    BY <2>2 DEF CutBefore
  <2> DEFINE b == CutBefore(t, i)
             p == SubSeq(text, b + 1, i - 1)
             q == SubSeq(t, b + 1, i - 1)
  <2>4. b \in 0 .. i - 1
    BY <2>1, CutBeforeIs
  <2> HIDE DEF b
  <2>5. p = q
    <3>1. i - 1 <= Len(t) /\ i - 1 <= Len(text) /\ b + 1 \in 1 .. i /\ i - 1 \in Nat
      BY <1>1, <1>2, <1>3, <2>1, <2>4
    <3>2. /\ p \in Seq(S) /\ Len(p) = i - 1 - b
          /\ \A m \in 1 .. i - 1 - b : p[m] = text[b + m]
      BY <1>2, <1>3, <2>4, <3>1
    <3>3. /\ q \in Seq(S) /\ Len(q) = i - 1 - b
          /\ \A m \in 1 .. i - 1 - b : q[m] = t[b + m]
      BY <1>2, <1>3, <2>4, <3>1
    <3>4. \A m \in 1 .. i - 1 - b : b + m \in 1 .. Len(t)
      BY <1>2, <1>3, <2>4, <3>1
    <3> HIDE DEF p, q
    <3>5. \A m \in 1 .. Len(p) : p[m] = q[m]
      BY <1>2, <3>2, <3>3, <3>4
    <3> QED
      BY <3>2, <3>3, <3>5, SeqEqual
  <2>6. PartAt(text, i) = IF CutAt(text, i) THEN <<p>> ELSE << >>
    BY <2>3 DEF PartAt, b
  <2>7. PartAt(t, i) = IF CutAt(t, i) THEN <<q>> ELSE << >>
    BY DEF PartAt, b
  <2>8. CutAt(text, i) <=> CutAt(t, i)
    BY <1>4, <2>1
  <2> HIDE DEF p, q
  <2> QED
    BY <2>5, <2>6, <2>7, <2>8
\* Behind it there is only the last name.
<1>6. \A i \in k + 1 .. Len(text) : ~CutAt(text, i)
  <2> TAKE i \in k + 1 .. Len(text)
  <2> DEFINE j == i - k
  <2>1. j \in 1 .. Len(n) /\ i = k + j /\ i # 0 /\ i # Len(text) + 1
    BY <1>1, <1>2, <1>3
  <2> HIDE DEF j
  <2>2. text[i] # NUL
    BY <1>3, <2>1
  <2> QED
    BY <2>1, <2>2 DEF CutAt
<1>7. CutBefore(text, Len(text) + 1) = k
  <2> DEFINE l == Len(text) + 1
             j == CutBefore(text, l)
  <2>1. l \in 1 .. Len(text) + 1 /\ l - 1 = Len(text) /\ k \in 0 .. Len(text)
    BY <1>1, <1>2, <1>3
  <2>2. j \in 0 .. l - 1 /\ LastCut(text, l, j)
    BY <1>2, <2>1, CutBeforeIs
  <2> HIDE DEF j, l
  <2>3. CutAt(text, k)
    BY <1>3 DEF CutAt
  <2>4. ~(j < k)
    <3> SUFFICES ASSUME j < k PROVE FALSE
      OBVIOUS
    <3>1. k \in j + 1 .. l - 1
      BY <1>2, <2>1, <2>2
    <3> QED
      BY <2>2, <2>3, <3>1 DEF LastCut
  <2>5. ~(j > k)
    <3> SUFFICES ASSUME j > k PROVE FALSE
      OBVIOUS
    <3>1. j \in k + 1 .. Len(text)
      BY <1>2, <1>3, <2>1, <2>2
    <3> QED
      BY <1>6, <2>2, <3>1 DEF LastCut
  <2>6. j = k
    BY <1>2, <1>3, <2>1, <2>2, <2>4, <2>5
  <2> QED
    BY <2>6 DEF j, l
<1> DEFINE Q == {s \in Seq(S) : Len(s) <= Len(text)}
           parts == [i \in 1 .. Len(text) |-> PartAt(text, i)]
           last == SubSeq(text, CutBefore(text, Len(text) + 1) + 1, Len(text))
           front == [i \in 1 .. k |-> PartAt(t, i)]
           none == [i \in 1 .. Len(n) |-> << >>]
<1>8. /\ Q = {s \in Seq(S) : Len(s) <= Len(text)}
      /\ parts = [i \in 1 .. Len(text) |-> PartAt(text, i)]
      /\ last = SubSeq(text, CutBefore(text, Len(text) + 1) + 1, Len(text))
      /\ DOMAIN parts = 1 .. Len(text)
      /\ \A i \in 1 .. Len(text) : parts[i] = PartAt(text, i)
  OBVIOUS
<1>18. SplitInto(S, text, Q, parts, last)
  BY DEF SplitInto
<1>9. front = [i \in 1 .. Len(t) + 1 |-> PartAt(t, i)]
  BY <1>3
<1>10. /\ DOMAIN front = 1 .. k /\ \A i \in 1 .. k : front[i] = PartAt(t, i)
  OBVIOUS
<1>11. none \in Seq(Seq(Q)) /\ Len(none) = Len(n) /\ \A i \in 1 .. Len(n) : none[i] = << >>
  BY <1>1
<1> HIDE DEF Q, parts, last, front, none
<1>12. parts \in Seq(Seq(Q)) /\ last \in Q /\ Split(text) = Concat(parts) \o <<last>>
  BY <1>2, <1>18, SplitLast
<1>13. front \in Seq(Seq(Q)) /\ Len(front) = k
  <2>1. \A i \in 1 .. k : i \in 1 .. Len(text)
    BY <1>1, <1>2, <1>3
  <2>2. \A i \in 1 .. k : parts[i] \in Seq(Q)
    BY <1>1, <1>2, <1>3, <1>8, <1>12, <2>1
  <2>3. \A i \in 1 .. k : front[i] \in Seq(Q)
    BY <1>5, <1>8, <1>10, <2>1, <2>2
  <2>4. front = [i \in 1 .. k |-> front[i]]
    BY <1>10 DEF front
  <2>5. front \in [1 .. k -> Seq(Q)]
    BY <2>3, <2>4
  <2>6. front \in Seq(Seq(Q))
    <3> DEFINE X == Seq(Q)
    <3>1. front \in [1 .. k -> X] /\ k \in Nat
      BY <1>3, <2>5
    <3> HIDE DEF X
    <3>2. front \in Seq(X)
      BY <3>1
    <3> QED
      BY <3>2 DEF X
  <2>7. Len(front) = k
    BY <1>3, <1>10, <2>6
  <2> QED
    BY <2>6, <2>7
<1> DEFINE both == front \o none
<1>14. parts = both
  <2>1. front \in Seq(Seq(Q)) /\ none \in Seq(Seq(Q))
    BY <1>11, <1>13
  <2>2. /\ both \in Seq(Seq(Q)) /\ Len(both) = Len(front) + Len(none)
        /\ \A i \in 1 .. Len(front) : both[i] = front[i]
        /\ \A i \in 1 .. Len(none) : both[Len(front) + i] = none[i]
    BY <2>1, CatFacts
  <2> HIDE DEF both
  <2>3. Len(both) = Len(text)
    BY <1>3, <1>11, <1>13, <2>2
  <2>4. ASSUME NEW i \in 1 .. Len(text) PROVE parts[i] = both[i]
    <3>1. CASE i <= k
      <4>1. i \in 1 .. k
        BY <1>3, <3>1
      <4> QED
        BY <1>5, <1>8, <1>10, <1>13, <2>2, <4>1
    <3>2. CASE ~(i <= k)
      <4> DEFINE m == i - k
      <4>1. m \in 1 .. Len(n) /\ i = k + m /\ i \in k + 1 .. Len(text)
        BY <1>1, <1>2, <1>3, <3>2
      <4> HIDE DEF m
      <4>2. parts[i] = << >>
        BY <1>6, <1>8, <4>1 DEF PartAt
      <4>3. both[i] = << >>
        BY <1>11, <1>13, <2>2, <4>1
      <4> QED
        BY <4>2, <4>3
    <3> QED
      BY <3>1, <3>2
  <2>5. Len(parts) = Len(text)
    BY <1>2, <1>8, <1>12
  <2>6. Len(parts) = Len(both) /\ \A i \in 1 .. Len(parts) : parts[i] = both[i]
    BY <2>3, <2>4, <2>5
  <2>7. parts \in Seq(Seq(Q)) /\ both \in Seq(Seq(Q))
    BY <1>12, <2>2
  <2> HIDE DEF parts, Q
  <2> QED
    BY <2>6, <2>7, SeqEqual
<1>15. Concat(both) = Concat(front)
  <2>1. Concat(none) = << >>
    BY <1>11, ConcatOfEmpty
  <2>2. Concat(both) = Concat(front) \o Concat(none)
    BY <1>11, <1>13, ConcatPlus
  <2> DEFINE c == Concat(front)
  <2>3. c \in Seq(Q)
    BY <1>13, ConcatType
  <2> HIDE DEF c
  <2>4. c \o << >> = c
    BY <2>3
  <2> QED
    BY <2>1, <2>2, <2>4 DEF c
<1>16. Split(t) = Concat(front)
  BY <1>9, SplitIs
<1>17. last = n
  <2> DEFINE p == SubSeq(text, k + 1, Len(text))
  <2>1. k + 1 \in 1 .. Len(text) + 1 /\ Len(text) - k = Len(n) /\ Len(text) \in Nat
    BY <1>1, <1>2, <1>3
  <2>2. p \in Seq(S) /\ Len(p) = Len(n) /\ \A i \in 1 .. Len(n) : p[i] = text[k + i]
    BY <1>2, <1>3, <2>1
  <2>3. last = p
    BY <1>7, <1>8
  <2> HIDE DEF p
  <2>4. \A i \in 1 .. Len(p) : p[i] = n[i]
    BY <1>3, <2>2
  <2>5. p = n
    BY <2>2, <2>4, SeqEqual
  <2> QED
    BY <2>3, <2>5
<1> QED
  BY <1>12, <1>14, <1>15, <1>16, <1>17 DEF text, e

Behind(x, i) == IF i = 1 THEN x ELSE <<NUL>> \o x

JoinedFrom(names, parts) == parts = [i \in DOMAIN names |-> Behind(names[i], i)]

LEMMA JoinedIs ==
    ASSUME NEW S, NUL \in S, NEW names \in Seq(Seq(S)), NEW parts, JoinedFrom(names, parts)
    PROVE  /\ Joined(names) = Concat(parts) /\ parts \in Seq(Seq(S)) /\ Len(parts) = Len(names)
           /\ \A i \in 1 .. Len(names) : parts[i] = Behind(names[i], i)
<1>1. Joined(names) = Concat(parts)
  BY DEF Joined, Behind, JoinedFrom
<1>2. \A i \in 1 .. Len(names) : Behind(names[i], i) \in Seq(S)
  BY DEF Behind
<1> DEFINE X == Seq(S)
<1>3. names \in Seq(X) /\ \A i \in 1 .. Len(names) : Behind(names[i], i) \in X
  BY <1>2
<1> HIDE DEF X
<1>4. DOMAIN names = 1 .. Len(names) /\ Len(names) \in Nat
  BY <1>3
<1>5. parts \in Seq(X) /\ Len(parts) = Len(names)
  BY <1>3, <1>4 DEF JoinedFrom
<1>6. \A i \in 1 .. Len(names) : parts[i] = Behind(names[i], i)
  BY <1>4 DEF JoinedFrom
<1> QED
  BY <1>1, <1>5, <1>6 DEF X

LEMMA JoinedType ==
    ASSUME NEW S, NUL \in S, NEW names \in Seq(Seq(S))
    PROVE  Joined(names) \in Seq(S)
<1> DEFINE parts == [i \in DOMAIN names |-> Behind(names[i], i)]
<1>1. JoinedFrom(names, parts)
  BY DEF JoinedFrom
<1> HIDE DEF parts
<1>2. Joined(names) = Concat(parts) /\ parts \in Seq(Seq(S))
  BY <1>1, JoinedIs
<1> QED
  BY <1>2, ConcatType

LEMMA JoinedOne ==
    ASSUME NEW S, NUL \in S, NEW n \in Seq(S)
    PROVE  Joined(<<n>>) = n
<1> DEFINE names == <<n>>
           parts == [i \in DOMAIN names |-> Behind(names[i], i)]
<1>1. names \in Seq(Seq(S)) /\ JoinedFrom(names, parts)
  BY DEF JoinedFrom
<1>2. parts = <<n>>
  BY DEF Behind
<1> HIDE DEF parts, names
<1>3. Joined(names) = Concat(parts)
  BY <1>1, JoinedIs
<1>4. Concat(parts) = n
  BY <1>2, ConcatSingle
<1> QED
  BY <1>3, <1>4 DEF names

LEMMA JoinedAppend ==
    ASSUME NEW S, NUL \in S, NEW names \in Seq(Seq(S)), names # << >>, NEW n \in Seq(S)
    PROVE  Joined(Append(names, n)) = Joined(names) \o (<<NUL>> \o n)
<1> DEFINE X == Seq(S)
           more == Append(names, n)
           k == Len(names)
           parts == [i \in DOMAIN names |-> Behind(names[i], i)]
           all == [i \in DOMAIN more |-> Behind(more[i], i)]
           e == <<NUL>> \o n
<1>1. e \in X /\ n \in X /\ names \in Seq(X)
  OBVIOUS
<1> HIDE DEF X, e
<1>2. /\ more \in Seq(X) /\ Len(more) = k + 1 /\ k \in Nat /\ k # 0 /\ more[k + 1] = n
      /\ \A i \in 1 .. k : more[i] = names[i]
  BY <1>1
<1> HIDE DEF more, k
<1>3. /\ JoinedFrom(names, parts) /\ JoinedFrom(more, all)
      /\ names \in Seq(Seq(S)) /\ more \in Seq(Seq(S)) /\ Len(names) = k
  BY <1>2 DEF X, k, JoinedFrom
<1> HIDE DEF parts, all
<1>4. /\ Joined(names) = Concat(parts) /\ parts \in Seq(Seq(S)) /\ Len(parts) = k
      /\ \A i \in 1 .. k : parts[i] = Behind(names[i], i)
  <2>1. /\ Joined(names) = Concat(parts) /\ parts \in Seq(Seq(S)) /\ Len(parts) = Len(names)
        /\ \A i \in 1 .. Len(names) : parts[i] = Behind(names[i], i)
    BY <1>3, JoinedIs
  <2> QED
    BY <1>3, <2>1
<1>5. /\ Joined(more) = Concat(all) /\ all \in Seq(Seq(S)) /\ Len(all) = k + 1
      /\ \A i \in 1 .. k + 1 : all[i] = Behind(more[i], i)
  <2>1. /\ Joined(more) = Concat(all) /\ all \in Seq(Seq(S)) /\ Len(all) = Len(more)
        /\ \A i \in 1 .. Len(more) : all[i] = Behind(more[i], i)
    BY <1>3, JoinedIs
  <2> QED
    BY <1>2, <2>1
<1> DEFINE one == <<e>>
           both == parts \o one
<1>6. one \in Seq(X) /\ Len(one) = 1 /\ one[1] = e /\ parts \in Seq(X) /\ all \in Seq(X)
  BY <1>1, <1>4, <1>5 DEF X
<1> HIDE DEF one
<1>7. /\ both \in Seq(X) /\ Len(both) = k + 1 /\ both[k + 1] = e
      /\ \A i \in 1 .. k : both[i] = parts[i]
  <2>1. one \in Seq(X) /\ parts \in Seq(X)
    BY <1>6
  <2>2. /\ both \in Seq(X) /\ Len(both) = Len(parts) + Len(one)
        /\ \A i \in 1 .. Len(parts) : both[i] = parts[i]
        /\ \A i \in 1 .. Len(one) : both[Len(parts) + i] = one[i]
    BY <2>1, CatFacts
  <2> HIDE DEF both
  <2>3. 1 \in 1 .. Len(one)
    BY <1>6
  <2>4. both[Len(parts) + 1] = one[1]
    BY <2>2, <2>3
  <2> QED
    BY <1>4, <1>6, <2>2, <2>4
<1> HIDE DEF both
<1>8. ASSUME NEW i \in 1 .. k + 1 PROVE all[i] = both[i]
  <2>1. CASE i = k + 1
    <3>1. k + 1 # 1 /\ k + 1 \in 1 .. k + 1
      BY <1>2
    <3>2. all[k + 1] = Behind(n, k + 1)
      BY <1>2, <1>5, <3>1
    <3>3. Behind(n, k + 1) = e
      BY <3>1 DEF Behind, e
    <3> QED
      BY <1>7, <2>1, <3>2, <3>3
  <2>2. CASE i # k + 1
    <3>1. i \in 1 .. k
      BY <1>2, <2>2
    <3> QED
      BY <1>2, <1>4, <1>5, <1>7, <3>1
  <2> QED
    BY <2>1, <2>2
<1>9. all = both
  BY <1>5, <1>6, <1>7, <1>8, SeqEqual
<1>10. Concat(both) = Concat(parts) \o Concat(one)
  <2>1. parts \in Seq(Seq(S)) /\ one \in Seq(Seq(S))
    BY <1>6 DEF X
  <2> QED
    BY <2>1, ConcatPlus DEF both
<1>11. Concat(one) = e
  <2>1. e \in Seq(S)
    BY <1>1 DEF X
  <2> QED
    BY <2>1, ConcatSingle DEF one
<1> QED
  BY <1>4, <1>5, <1>9, <1>10, <1>11 DEF more, e

\* Names without a NUL come out of Split as they went into Joined.
LEMMA SplitsBack ==
    ASSUME NEW S, NUL \in S, NEW names \in Seq(Seq(S)), names # << >>,
           \A i \in 1 .. Len(names) : \A j \in 1 .. Len(names[i]) : names[i][j] # NUL
    PROVE  Split(Joined(names)) = names
<1> DEFINE X == {x \in Seq(S) : \A j \in 1 .. Len(x) : x[j] # NUL}
           P(n) == \A s \in Seq(X) : Len(s) = n + 1 => Split(Joined(s)) = s
           T == {n \in Nat : P(n)}
<1>1. \A x \in X : x \in Seq(S) /\ \A j \in 1 .. Len(x) : x[j] # NUL
  OBVIOUS
<1>2. names \in Seq(X) /\ Len(names) \in Nat /\ Len(names) # 0
  <2>1. \A i \in 1 .. Len(names) : names[i] \in X
    OBVIOUS
  <2>2. Len(names) \in Nat /\ DOMAIN names = 1 .. Len(names) /\ Len(names) # 0
    OBVIOUS
  <2>3. names = [i \in 1 .. Len(names) |-> names[i]]
    BY <2>2
  <2> HIDE DEF X, P, T
  <2>4. names \in [1 .. Len(names) -> X]
    BY <2>1, <2>3
  <2>5. names \in Seq(X)
    <3> DEFINE n == Len(names)
    <3>1. n \in Nat /\ names \in [1 .. n -> X]
      BY <2>2, <2>4
    <3> HIDE DEF n
    <3> QED
      BY <3>1
  <2> QED
    BY <2>2, <2>5
<1>3. X \in SUBSET Seq(S)
  OBVIOUS
<1> HIDE DEF X
<1>4. Seq(X) \in SUBSET Seq(Seq(S))
  <2> DEFINE Y == Seq(S)
  <2>1. X \in SUBSET Y
    BY <1>3
  <2> HIDE DEF Y
  <2>2. Seq(X) \in SUBSET Seq(Y)
    BY <2>1
  <2> QED
    BY <2>2 DEF Y
<1>5. P(0)
  <2> TAKE s \in Seq(X)
  <2> HAVE Len(s) = 0 + 1
  <2> DEFINE x == s[1]
  <2>1. x \in X /\ s = <<x>>
    <3>0. Len(s) = 1 /\ 1 \in 1 .. Len(s)
      OBVIOUS
    <3>1. x \in X /\ Len(s) = 1 /\ s[1] = x
      BY <3>0, ElementOfSeq
    <3> HIDE DEF x
    <3> DEFINE one == <<x>>
    <3>2. one \in Seq(X) /\ Len(one) = 1 /\ one[1] = x
      BY <3>1
    <3> HIDE DEF one
    <3>3. \A i \in 1 .. Len(s) : s[i] = one[i]
      BY <3>1, <3>2
    <3>4. s = one
      BY <3>1, <3>2, <3>3, SeqEqual
    <3> QED
      BY <3>1, <3>4 DEF one
  <2> HIDE DEF x
  <2>2. x \in Seq(S) /\ \A j \in 1 .. Len(x) : x[j] # NUL
    BY <1>1, <2>1
  <2>3. Joined(<<x>>) = x
    BY <2>2, JoinedOne
  <2>4. Split(x) = <<x>>
    BY <2>2, SplitOne
  <2> QED
    BY <2>1, <2>3, <2>4
<1>6. ASSUME NEW n \in Nat, P(n) PROVE P(n + 1)
  <2> TAKE s \in Seq(X)
  <2> HAVE Len(s) = (n + 1) + 1
  <2> DEFINE f == SubSeq(s, 1, n + 1)
             x == s[n + 2]
  <2>1. f \in Seq(X) /\ Len(f) = n + 1 /\ x \in X /\ s = Append(f, x)
    OBVIOUS
  <2> HIDE DEF f, x
  <2>2. Split(Joined(f)) = f
    BY <1>6, <2>1
  <2>3. f \in Seq(Seq(S)) /\ f # << >> /\ x \in Seq(S) /\ \A j \in 1 .. Len(x) : x[j] # NUL
    BY <1>1, <1>4, <2>1
  <2>4. Joined(Append(f, x)) = Joined(f) \o (<<NUL>> \o x)
    BY <2>3, JoinedAppend
  <2> DEFINE t == Joined(f)
  <2>5. t \in Seq(S)
    BY <2>3, JoinedType
  <2> HIDE DEF t
  <2>6. Split(t \o (<<NUL>> \o x)) = Split(t) \o <<x>>
    BY <2>3, <2>5, SplitAppend
  <2>7. f \o <<x>> = Append(f, x)
    BY <2>1
  <2> QED
    BY <2>1, <2>2, <2>4, <2>6, <2>7 DEF t
<1>7. T \in SUBSET Nat /\ 0 \in T /\ \A n \in T : n + 1 \in T
  <2> HIDE DEF P
  <2> QED
    BY <1>5, <1>6
<1> HIDE DEF T
<1>8. \A n \in Nat : n \in T
  BY <1>7, Induction
<1>9. Len(names) - 1 \in Nat /\ Len(names) = (Len(names) - 1) + 1
  BY <1>2
<1>10. P(Len(names) - 1)
  BY <1>8, <1>9 DEF T
<1> QED
  BY <1>2, <1>9, <1>10
=============================================================================
