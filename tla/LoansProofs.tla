----------------------------- MODULE LoansProofs -----------------------------
(***************************************************************************)
(* Theorems about the arithmetic of a financing, for any amounts, rates,   *)
(* terms, costs and payments.                                              *)
(*                                                                         *)
(* What a recursive function of the model computes is proved by induction  *)
(* on sets of numbers (Induction), whose only premise is that Nat is well  *)
(* founded: the operator that a definition of the model iterates is first  *)
(* turned into a function (Iterates).                                      *)
(***************************************************************************)
EXTENDS Loans, TLAPS, WellFoundedInduction

-----------------------------------------------------------------------------
(* Induction and recursion *)

LEMMA NatMin ==
    ASSUME NEW T \in SUBSET Nat, T # {}
    PROVE  \E x \in T : \A y \in T : x <= y
<1> DEFINE R == OpToRel(<, Nat)
<1>1. IsWellFoundedOn(R, Nat)
    BY NatLessThanWellFounded
<1>2. \A x, y \in Nat : x < y => <<x, y>> \in R
    BY DEF OpToRel
<1> HIDE DEF R
<1>3. PICK x \in T : \A y \in T : <<y, x>> \notin R
    BY <1>1, WFMin
<1>4. \A y \in T : x \in Nat /\ y \in Nat /\ ~(y < x)
    BY <1>2, <1>3
<1>5. \A y \in T : x <= y
    BY <1>4
<1> QED
    BY <1>5

LEMMA Induction ==
    ASSUME NEW P \in SUBSET Nat, 0 \in P, \A n \in P : n + 1 \in P
    PROVE  P = Nat
<1> SUFFICES ASSUME Nat \ P # {} PROVE FALSE
    OBVIOUS
<1>1. PICK x \in Nat \ P : \A y \in Nat \ P : x <= y
    BY NatMin
<1>2. x - 1 \in Nat /\ x - 1 \notin P
    BY <1>1
<1> QED
    BY <1>1, <1>2

\* The form it is used in: what is so at 0 and kept up to n is so up to n.
LEMMA UpTo ==
    ASSUME NEW n \in Nat, NEW Q \in SUBSET (0..n), 0 \in Q,
           \A k \in 1..n : k - 1 \in Q => k \in Q
    PROVE  Q = 0..n
<1> DEFINE P == {k \in Nat : k <= n => k \in Q}
<1>1. 0 \in P
    OBVIOUS
<1>2. ASSUME NEW m \in P PROVE m + 1 \in P
    OBVIOUS
<1>3. P = Nat
    <2> HIDE DEF P
    <2>1. P \in SUBSET Nat
        BY DEF P
    <2> QED
        BY <1>1, <1>2, <2>1, Induction
<1>4. \A k \in 0..n : k \in Nat /\ k <= n
    OBVIOUS
<1>5. \A k \in 0..n : k \in Q
    BY <1>3, <1>4
<1> QED
    BY <1>5

\* f is what n applications of step make of a.
Iterates(f, a, n, step) ==
    f[0] = a /\ \A k \in 1..n : f[k] = step[k][f[k - 1]]

LEMMA IteratesExist ==
    ASSUME NEW S, NEW a \in S, NEW n \in Nat, NEW step \in [1..n -> [S -> S]]
    PROVE  \E f : f \in [0..n -> S] /\ Iterates(f, a, n, step)
<1> USE DEF Iterates
<1> DEFINE Good(m, f) == f \in [0..m -> S] /\ Iterates(f, a, m, step)
           P == {m \in Nat : m <= n => \E f : Good(m, f)}
<1>1. 0 \in P
    <2>1. Good(0, [k \in 0..0 |-> a])
        OBVIOUS
    <2> QED
        BY <2>1
<1>2. ASSUME NEW m \in P PROVE m + 1 \in P
    <2>1. m \in Nat
        OBVIOUS
    <2> HIDE DEF Good
    <2> SUFFICES ASSUME m + 1 <= n PROVE \E f : Good(m + 1, f)
        BY <2>1
    <2> USE DEF Good
    <2>2. PICK f : Good(m, f)
        BY <2>1
    <2> DEFINE g == [k \in 0..(m + 1) |-> IF k <= m THEN f[k] ELSE step[m + 1][f[m]]]
    <2>3. f[m] \in S /\ step[m + 1][f[m]] \in S
        BY <2>1, <2>2
    <2>4. g \in [0..(m + 1) -> S]
        BY <2>1, <2>2, <2>3
    <2>5. g[0] = a
        BY <2>1, <2>2
    <2>6. \A k \in 1..(m + 1) : g[k] = step[k][g[k - 1]]
        BY <2>1, <2>2
    <2> HIDE DEF g
    <2> QED
        BY <2>4, <2>5, <2>6
<1>3. P = Nat
    <2> HIDE DEF P
    <2>1. P \in SUBSET Nat
        BY DEF P
    <2> QED
        BY <1>1, <1>2, <2>1, Induction
<1> QED
    BY <1>3

LEMMA IteratesAgree ==
    ASSUME NEW a, NEW n \in Nat, NEW step, NEW f, NEW g,
           Iterates(f, a, n, step), Iterates(g, a, n, step)
    PROVE  \A k \in 0..n : f[k] = g[k]
<1> DEFINE Q == {k \in 0..n : f[k] = g[k]}
<1>1. 0 \in Q
    BY DEF Iterates
<1>2. ASSUME NEW k \in 1..n, k - 1 \in Q PROVE k \in Q
    BY <1>2 DEF Iterates
<1>3. Q = 0..n
    <2> HIDE DEF Q
    <2>1. Q \in SUBSET (0..n)
        BY DEF Q
    <2> QED
        BY <1>1, <1>2, <2>1, UpTo
<1> QED
    BY <1>3

-----------------------------------------------------------------------------
(* Sums *)

\* The partial sums of a sequence.
Sums(s, g) == /\ g[0] = 0
              /\ \A i \in 1..Len(s) : g[i] = g[i - 1] + s[i]

LEMMA SumsExist ==
    ASSUME NEW s \in Seq(Int)
    PROVE  \E g \in [0..Len(s) -> Int] : Sums(s, g) /\ Total(s) = g[Len(s)]
<1> DEFINE n == Len(s)
           step == [i \in 1..n |-> [x \in Int |-> x + s[i]]]
           sum == CHOOSE f : f = [i \in 0..n |-> IF i = 0 THEN 0 ELSE f[i - 1] + s[i]]
<1>1. /\ step \in [1..n -> [Int -> Int]] /\ n \in Nat
      /\ \A i \in 1..n : \A x \in Int : step[i][x] = x + s[i]
    OBVIOUS
<1>2. Total(s) = sum[n]
    BY DEF Total
<1> HIDE DEF step, n
<1>3. PICK f : f \in [0..n -> Int] /\ Iterates(f, 0, n, step)
    <2>1. 0 \in Int /\ n \in Nat /\ step \in [1..n -> [Int -> Int]]
        BY <1>1
    <2> QED
        BY <2>1, IteratesExist
<1>4. f[0] = 0 /\ \A i \in 1..n : f[i] = f[i - 1] + s[i]
    <2>1. \A i \in 1..n : i - 1 \in 0..n /\ f[i - 1] \in Int
        BY <1>1, <1>3
    <2> QED
        BY <1>1, <1>3, <2>1 DEF Iterates
<1>5. f = [i \in 0..n |-> IF i = 0 THEN 0 ELSE f[i - 1] + s[i]]
    <2>1. \A i \in 0..n : i = 0 \/ i \in 1..n
        BY <1>1
    <2>2. \A i \in 0..n : f[i] = IF i = 0 THEN 0 ELSE f[i - 1] + s[i]
        BY <1>4, <2>1
    <2> QED
        BY <1>3, <2>2
<1>6. sum = [i \in 0..n |-> IF i = 0 THEN 0 ELSE sum[i - 1] + s[i]]
    BY <1>5
<1> HIDE DEF sum
<1>7. sum[0] = 0 /\ \A i \in 1..n : sum[i] = sum[i - 1] + s[i]
    <2>1. \A i \in 1..n : i \in 0..n /\ i # 0
        BY <1>1
    <2>2. 0 \in 0..n
        BY <1>1
    <2>3. \A i \in 0..n : sum[i] = IF i = 0 THEN 0 ELSE sum[i - 1] + s[i]
        BY <1>6
    <2> QED
        BY <2>1, <2>2, <2>3
<1>8. \A i \in 0..n : sum[i] = f[i]
    <2> DEFINE Q == {i \in 0..n : sum[i] = f[i]}
    <2>1. 0 \in Q /\ Q \in SUBSET (0..n)
        BY <1>1, <1>4, <1>7
    <2>2. \A i \in 1..n : i - 1 \in Q => i \in Q
        BY <1>1, <1>4, <1>7
    <2> HIDE DEF Q
    <2>3. Q = 0..n
        BY <1>1, <2>1, <2>2, UpTo
    <2> QED
        BY <2>3 DEF Q
<1>9. Sums(s, f) /\ Total(s) = f[n]
    BY <1>1, <1>2, <1>4, <1>8 DEF Sums, n
<1> QED
    BY <1>3, <1>9 DEF n

\* Whatever adds up like the partial sums ends in the total.
LEMMA TotalIs ==
    ASSUME NEW s \in Seq(Int), NEW g, Sums(s, g)
    PROVE  Total(s) = g[Len(s)] /\ Total(s) \in Int
<1>1. PICK f \in [0..Len(s) -> Int] : Sums(s, f) /\ Total(s) = f[Len(s)]
    BY SumsExist
<1> DEFINE n == Len(s)
           Q == {i \in 0..n : f[i] = g[i]}
<1>2. n \in Nat
    OBVIOUS
<1>3. 0 \in Q /\ Q \in SUBSET (0..n)
    BY <1>1, <1>2 DEF Sums
<1>4. \A i \in 1..n : i - 1 \in Q => i \in Q
    BY <1>1, <1>2 DEF Sums
<1> HIDE DEF Q
<1>5. Q = 0..n
    BY <1>2, <1>3, <1>4, UpTo
<1> QED
    BY <1>1, <1>2, <1>5 DEF Q

-----------------------------------------------------------------------------
(* Powers, rounding, and the instalment *)

\* The powers of x up to the k-th.
Powers(x, k, g) == /\ g[0] = 1
                   /\ \A i \in 1..k : g[i] = x * g[i - 1]

LEMMA PowersExist ==
    ASSUME NEW x \in Nat, NEW k \in Nat
    PROVE  \E g \in [0..k -> Nat] : Powers(x, k, g) /\ Power(x, k) = g[k]
<1> DEFINE step == [i \in 1..k |-> [y \in Nat |-> x * y]]
           p == CHOOSE f : f = [i \in 0..k |-> IF i = 0 THEN 1 ELSE x * f[i - 1]]
<1>1. \A y \in Nat : x * y \in Nat
    OBVIOUS
<1>2. /\ step \in [1..k -> [Nat -> Nat]]
      /\ \A i \in 1..k : \A y \in Nat : step[i][y] = x * y
    BY <1>1
<1>3. Power(x, k) = p[k]
    BY DEF Power
<1> HIDE DEF step
<1>4. PICK f : f \in [0..k -> Nat] /\ Iterates(f, 1, k, step)
    <2>1. 1 \in Nat
        OBVIOUS
    <2> QED
        BY <1>2, <2>1, IteratesExist
<1>5. \A i \in 0..k : f[i] = IF i = 0 THEN 1 ELSE x * f[i - 1]
    <2>1. \A i \in 1..k : i - 1 \in 0..k /\ f[i - 1] \in Nat
        BY <1>4
    <2>2. \A i \in 0..k : i = 0 \/ i \in 1..k
        OBVIOUS
    <2> QED
        BY <1>2, <1>4, <2>1, <2>2 DEF Iterates
<1>6. f = [i \in 0..k |-> IF i = 0 THEN 1 ELSE x * f[i - 1]]
    BY <1>4, <1>5
<1>7. p = [i \in 0..k |-> IF i = 0 THEN 1 ELSE x * p[i - 1]]
    BY <1>6
<1> HIDE DEF p
<1>8. Powers(x, k, p)
    <2>1. \A i \in 0..k : p[i] = IF i = 0 THEN 1 ELSE x * p[i - 1]
        BY <1>7
    <2>2. 0 \in 0..k /\ \A i \in 1..k : i \in 0..k /\ i # 0
        OBVIOUS
    <2> QED
        BY <2>1, <2>2 DEF Powers
<1>9. \A i \in 0..k : p[i] \in Nat
    <2> DEFINE Q == {i \in 0..k : p[i] \in Nat}
    <2>1. 0 \in Q /\ Q \in SUBSET (0..k)
        BY <1>8 DEF Powers
    <2>2. \A i \in 1..k : i - 1 \in Q => i \in Q
        BY <1>1, <1>8 DEF Powers
    <2> HIDE DEF Q
    <2>3. Q = 0..k
        BY <2>1, <2>2, UpTo
    <2> QED
        BY <2>3 DEF Q
<1>10. p \in [0..k -> Nat]
    BY <1>7, <1>9
<1> QED
    BY <1>3, <1>8, <1>10

LEMMA ProductsGrow ==
    ASSUME NEW a \in Nat, NEW b \in Nat, NEW x \in Nat, NEW y \in Nat,
           a <= b, x <= y
    PROVE  a * x <= b * y
<1>1. PICK d \in Nat : b = a + d
    <2>1. b - a \in Nat /\ b = a + (b - a)
        OBVIOUS
    <2> QED
        BY <2>1
<1>2. PICK e \in Nat : y = x + e
    <2>1. y - x \in Nat /\ y = x + (y - x)
        OBVIOUS
    <2> QED
        BY <2>1
<1>3. (a + d) * (x + e) = a * x + a * e + d * x + d * e
    OBVIOUS
<1>4. a * x \in Nat /\ a * e \in Nat /\ d * x \in Nat /\ d * e \in Nat
    OBVIOUS
<1> QED
    BY <1>1, <1>2, <1>3, <1>4

LEMMA ProductsDiffer ==
    ASSUME NEW a \in Nat, NEW b \in Nat, NEW x \in Nat, NEW u \in Nat,
           a <= b, b >= 1, x < u
    PROVE  x * a < u * b
<1>1. x * a <= x * b
    BY ProductsGrow
<1>2. x + 1 \in Nat /\ x + 1 <= u
    OBVIOUS
<1>3. (x + 1) * b <= u * b
    BY <1>2, ProductsGrow
<1>4. (x + 1) * b = x * b + b
    OBVIOUS
<1>5. x * a \in Nat /\ x * b \in Nat /\ u * b \in Nat
    OBVIOUS
<1> QED
    BY <1>1, <1>3, <1>4, <1>5

LEMMA PowerIsPositive ==
    ASSUME NEW x \in Nat, x >= 1, NEW k \in Nat
    PROVE  Power(x, k) \in Nat /\ Power(x, k) >= 1
<1>1. PICK g \in [0..k -> Nat] : Powers(x, k, g) /\ Power(x, k) = g[k]
    BY PowersExist
<1> DEFINE Q == {i \in 0..k : g[i] >= 1}
<1>2. 0 \in Q /\ Q \in SUBSET (0..k)
    BY <1>1 DEF Powers
<1>3. ASSUME NEW i \in 1..k, i - 1 \in Q PROVE i \in Q
    <2>1. g[i - 1] \in Nat /\ g[i - 1] >= 1 /\ g[i] = x * g[i - 1]
        BY <1>1, <1>3 DEF Powers
    <2>2. 1 * 1 <= x * g[i - 1]
        BY <2>1, ProductsGrow
    <2> QED
        BY <2>1, <2>2
<1> HIDE DEF Q
<1>4. Q = 0..k
    BY <1>2, <1>3, UpTo
<1>5. k \in Q
    BY <1>4
<1> QED
    BY <1>1, <1>5 DEF Q

LEMMA PowersDiffer ==
    ASSUME NEW x \in Nat, x >= 1, NEW u \in Nat, u > x, NEW k \in Nat, k >= 1
    PROVE  Power(u, k) > Power(x, k)
<1>1. PICK g \in [0..k -> Nat] : Powers(x, k, g) /\ Power(x, k) = g[k]
    BY PowersExist
<1>2. PICK h \in [0..k -> Nat] : Powers(u, k, h) /\ Power(u, k) = h[k]
    BY PowersExist
<1> DEFINE Q == {i \in 0..k : /\ h[i] >= 1 /\ h[i] >= g[i]
                              /\ i > 0 => h[i] > g[i]}
<1>3. 0 \in Q /\ Q \in SUBSET (0..k)
    <2>1. g[0] = 1 /\ h[0] = 1 /\ 0 \in 0..k
        BY <1>1, <1>2 DEF Powers
    <2> QED
        BY <2>1
<1>4. ASSUME NEW i \in 1..k, i - 1 \in Q PROVE i \in Q
    <2>1. /\ g[i - 1] \in Nat /\ g[i] = x * g[i - 1]
          /\ h[i - 1] \in Nat /\ h[i] = u * h[i - 1]
          /\ h[i - 1] >= 1 /\ h[i - 1] >= g[i - 1]
        BY <1>1, <1>2, <1>4 DEF Powers
    <2>2. x * g[i - 1] < u * h[i - 1]
        BY <2>1, ProductsDiffer
    <2>3. x * g[i - 1] \in Nat /\ u * h[i - 1] \in Nat
        BY <2>1
    <2> QED
        BY <2>1, <2>2, <2>3
<1> HIDE DEF Q
<1>5. Q = 0..k
    BY <1>3, <1>4, UpTo
<1>6. k \in Q
    BY <1>5
<1> QED
    BY <1>1, <1>2, <1>6 DEF Q

LEMMA RoundedIsInt ==
    ASSUME NEW a \in Int, NEW b \in Int, b > 0
    PROVE  Rounded(a, b) \in Int
BY DEF Rounded

\* What is asked of the growth over the days of grace.
Grown(r, c) ==
    /\ Num(r, c) \in Nat /\ Den(r, c) \in Nat
    /\ 1 <= Den(r, c) /\ Den(r, c) <= Num(r, c)
    /\ r = 0 => Num(r, c) = Den(r, c)

\* A month at least has passed.
AMonth(r, c) == (RateUnit + r) * Den(r, c) <= RateUnit * Num(r, c)

LEMMA GrowthIs ==
    ASSUME GrowthAssumption, PriceAssumption, NEW r \in Taxas
    PROVE  /\ \A c \in Dias : Grown(r, c) /\ (c >= Mes => AMonth(r, c))
           /\ Mes \in Nat \ {0} /\ Grown(r, Mes) /\ AMonth(r, Mes)
           /\ RateUnit * Num(r, Mes) = (RateUnit + r) * Den(r, Mes)
<1>1. Mes \in Nat \ {0} /\ Mes \in Dias
    BY DEF PriceAssumption
<1>2. ASSUME NEW c \in Dias
      PROVE  Grown(r, c) /\ (c >= Mes => AMonth(r, c))
    <2>1. Growth[<<r, c>>] \in (Nat \ {0}) \X (Nat \ {0})
        BY DEF GrowthAssumption
    <2>2. Num(r, c) \in Nat \ {0} /\ Den(r, c) \in Nat \ {0}
        BY <2>1 DEF Num, Den
    <2>3. /\ Den(r, c) <= Num(r, c) /\ (r = 0 => Num(r, c) = Den(r, c))
          /\ c >= Mes => (RateUnit + r) * Den(r, c) <= RateUnit * Num(r, c)
        BY DEF GrowthAssumption
    <2> QED
        BY <2>2, <2>3 DEF Grown, AMonth
<1>3. Mes >= Mes
    BY <1>1
<1>4. Grown(r, Mes) /\ AMonth(r, Mes)
    BY <1>1, <1>2, <1>3
<1>5. RateUnit * Num(r, Mes) = (RateUnit + r) * Den(r, Mes)
    BY DEF GrowthAssumption
<1> QED
    BY <1>1, <1>2, <1>4, <1>5

LEMMA PmtIsInt ==
    ASSUME PriceAssumption, NEW pv \in Int, NEW r \in Nat, NEW n \in Nat, n >= 1,
           NEW c \in Nat, Grown(r, c)
    PROVE  Pmt(pv, r, n, c) \in Int
<1>1. CASE r = 0
    BY <1>1, RoundedIsInt DEF Pmt
<1>2. CASE r # 0
    <2> DEFINE u == RateUnit + r
    <2>1. RateUnit \in Nat /\ RateUnit >= 1 /\ u \in Nat /\ u >= 1 /\ u > RateUnit
        BY <1>2 DEF PriceAssumption
    <2>2. n - 1 \in Nat
        OBVIOUS
    <2> HIDE DEF u
    <2>3. Power(u, n - 1) \in Nat /\ Num(r, c) \in Nat
        BY <2>1, <2>2, PowerIsPositive DEF Grown
    <2>4. Den(r, c) \in Nat /\ Den(r, c) >= 1
        BY DEF Grown
    <2>5. Power(u, n) \in Nat /\ Power(RateUnit, n) \in Nat
          /\ Power(u, n) - Power(RateUnit, n) >= 1
        <3>1. Power(u, n) \in Nat /\ Power(RateUnit, n) \in Nat
            BY <2>1, PowerIsPositive
        <3>2. Power(u, n) > Power(RateUnit, n)
            BY <2>1, PowersDiffer
        <3> QED
            BY <3>1, <3>2
    <2> DEFINE a == pv * Num(r, c) * Power(u, n - 1) * r
               b == Den(r, c) * (Power(u, n) - Power(RateUnit, n))
    <2>6. a \in Int
        BY <2>3
    <2>7. b \in Int /\ b > 0
        <3> DEFINE v == Den(r, c)
                   w == Power(u, n) - Power(RateUnit, n)
        <3>1. v \in Nat /\ w \in Nat /\ 1 <= v /\ 1 <= w
            BY <2>4, <2>5
        <3> HIDE DEF v, w
        <3>2. 1 * 1 <= v * w /\ v * w \in Nat
            BY <3>1, ProductsGrow
        <3> QED
            BY <3>2 DEF v, w
    <2>8. Pmt(pv, r, n, c) = Rounded(a, b)
        BY <1>2 DEF Pmt, u
    <2> HIDE DEF a, b
    <2> QED
        BY <2>6, <2>7, <2>8, RoundedIsInt
<1> QED
    BY <1>1, <1>2

LEMMA JurosIsInt ==
    ASSUME PriceAssumption, NEW pv \in Int, NEW saldo \in Int, NEW r \in Nat,
           NEW c \in Nat, Grown(r, c), NEW k \in Nat
    PROVE  Juros(pv, saldo, r, c, k) \in Int
<1>1. RateUnit \in Nat /\ RateUnit >= 1 /\ RateUnit + r \in Nat /\ RateUnit + r >= 1
    BY DEF PriceAssumption
<1>2. Den(r, c) \in Nat /\ Den(r, c) >= 1 /\ Num(r, c) \in Nat
    BY DEF Grown
<1>3. Rounded(pv * (Num(r, c) - Den(r, c)), Den(r, c)) \in Int
    <2>1. pv * (Num(r, c) - Den(r, c)) \in Int
        BY <1>2
    <2> QED
        BY <1>2, <2>1, RoundedIsInt
<1>4. Rounded(saldo * r, RateUnit) \in Int
    <2>1. saldo * r \in Int
        OBVIOUS
    <2> QED
        BY <1>1, <2>1, RoundedIsInt
<1> QED
    BY <1>3, <1>4 DEF Juros

-----------------------------------------------------------------------------
(* Schedules *)

RowType == [venc: Int, anterior: Int, juros: Int, amort: Int, parcela: Int,
            saldo: Int]

LEMMA RowFields ==
    ASSUME NEW x \in RowType
    PROVE  /\ x.venc \in Int /\ x.anterior \in Int /\ x.juros \in Int
           /\ x.amort \in Int /\ x.parcela \in Int /\ x.saldo \in Int
BY DEF RowType

\* The rows go from pv to zero, each from what the one before leaves.
Chain(rows, pv) ==
    /\ rows \in Seq(RowType) /\ Len(rows) >= 1
    /\ rows[1].anterior = pv
    /\ rows[Len(rows)].saldo = 0
    /\ \A i \in 1..Len(rows) :
          /\ rows[i].saldo = rows[i].anterior - rows[i].amort
          /\ rows[i].parcela = rows[i].juros + rows[i].amort
    /\ \A i \in 2..Len(rows) : rows[i].anterior = rows[i - 1].saldo

\* What a month leaves of x.
After(pv, r, n, c, k, x) ==
    x - Repayment(Pmt(pv, r, n, c), Juros(pv, x, r, c, k), x, k, n)

LEMMA AfterIsInt ==
    ASSUME PriceAssumption, NEW pv \in Int, NEW r \in Nat, NEW n \in Nat, n >= 1,
           NEW c \in Nat, Grown(r, c), NEW k \in 1..n, NEW x \in Int
    PROVE  After(pv, r, n, c, k, x) \in Int
<1>1. Pmt(pv, r, n, c) \in Int /\ Juros(pv, x, r, c, k) \in Int
    <2>1. k \in Nat
        OBVIOUS
    <2> QED
        BY <2>1, PmtIsInt, JurosIsInt
<1> QED
    BY <1>1 DEF After, Repayment

Leaves(owed, pv, r, n, c) ==
    /\ owed \in [0..n -> Int] /\ owed[0] = pv
    /\ \A k \in 1..n : owed[k] = After(pv, r, n, c, k, owed[k - 1])

LEMMA SaldosAre ==
    ASSUME PriceAssumption, NEW pv \in Int, NEW r \in Nat, NEW n \in Nat, n >= 1,
           NEW c \in Nat, Grown(r, c)
    PROVE  Leaves(Saldos(pv, r, n, c), pv, r, n, c)
<1> DEFINE step == [k \in 1..n |-> [x \in Int |-> After(pv, r, n, c, k, x)]]
           owed == CHOOSE f : f = [k \in 0..n |->
                       IF k = 0 THEN pv ELSE After(pv, r, n, c, k, f[k - 1])]
<1>1. \A k \in 1..n : \A x \in Int : After(pv, r, n, c, k, x) \in Int
    BY AfterIsInt
<1>2. /\ step \in [1..n -> [Int -> Int]]
      /\ \A k \in 1..n : \A x \in Int : step[k][x] = After(pv, r, n, c, k, x)
    BY <1>1
<1>3. Saldos(pv, r, n, c) = owed
    BY DEF Saldos, After
<1> HIDE DEF step
<1>4. PICK f : f \in [0..n -> Int] /\ Iterates(f, pv, n, step)
    BY <1>2, IteratesExist
<1>5. \A k \in 0..n : f[k] = IF k = 0 THEN pv ELSE After(pv, r, n, c, k, f[k - 1])
    <2>1. \A k \in 1..n : k - 1 \in 0..n /\ f[k - 1] \in Int
        BY <1>4
    <2>2. \A k \in 0..n : k = 0 \/ k \in 1..n
        OBVIOUS
    <2> QED
        BY <1>2, <1>4, <2>1, <2>2 DEF Iterates
<1>6. f = [k \in 0..n |-> IF k = 0 THEN pv ELSE After(pv, r, n, c, k, f[k - 1])]
    BY <1>4, <1>5
<1>7. owed = [k \in 0..n |->
                IF k = 0 THEN pv ELSE After(pv, r, n, c, k, owed[k - 1])]
    BY <1>6
<1> HIDE DEF owed
<1>8. owed[0] = pv /\ \A k \in 1..n : owed[k] = After(pv, r, n, c, k, owed[k - 1])
    <2>1. \A k \in 0..n :
             owed[k] = IF k = 0 THEN pv ELSE After(pv, r, n, c, k, owed[k - 1])
        BY <1>7
    <2>2. 0 \in 0..n /\ \A k \in 1..n : k \in 0..n /\ k # 0
        OBVIOUS
    <2> QED
        BY <2>1, <2>2
<1>9. \A k \in 0..n : owed[k] \in Int
    <2> DEFINE Q == {k \in 0..n : owed[k] \in Int}
    <2>1. 0 \in Q /\ Q \in SUBSET (0..n)
        BY <1>8
    <2>2. \A k \in 1..n : k - 1 \in Q => k \in Q
        BY <1>1, <1>8
    <2> HIDE DEF Q
    <2>3. Q = 0..n
        BY <2>1, <2>2, UpTo
    <2> QED
        BY <2>3 DEF Q
<1>10. owed \in [0..n -> Int]
    BY <1>7, <1>9
<1> QED
    BY <1>3, <1>8, <1>10 DEF Leaves

\* A chain of n rows, due month by month from start + c on.
Monthly(rows, pv, n, c, start) ==
    /\ Chain(rows, pv) /\ Len(rows) = n
    /\ \A k \in 1..n : rows[k].venc = start + c + (k - 1) * Mes

LEMMA ScheduleIsMonthly ==
    ASSUME PriceAssumption, NEW pv \in Int, NEW r \in Nat, NEW n \in Nat, n >= 1,
           NEW c \in Nat, Grown(r, c), NEW start \in Int
    PROVE  Monthly(Schedule(pv, r, n, c, start), pv, n, c, start)
<1> DEFINE rows == Schedule(pv, r, n, c, start)
           owed == Saldos(pv, r, n, c)
           pmt == Pmt(pv, r, n, c)
           J(k) == Juros(pv, owed[k - 1], r, c, k)
           A(k) == Repayment(pmt, J(k), owed[k - 1], k, n)
<1>1. /\ owed \in [0..n -> Int] /\ owed[0] = pv
      /\ \A k \in 1..n : owed[k] = owed[k - 1] - A(k)
    <2>1. Leaves(owed, pv, r, n, c)
        BY SaldosAre
    <2> HIDE DEF owed
    <2> QED
        BY <2>1 DEF After, Leaves
<1>2. rows = [k \in 1..n |->
                [venc |-> start + c + (k - 1) * Mes, anterior |-> owed[k - 1],
                 juros |-> J(k), amort |-> A(k),
                 parcela |-> IF k < n THEN pmt ELSE J(k) + A(k),
                 saldo |-> owed[k]]]
    BY DEF Schedule
<1> HIDE DEF rows, owed
<1>3. pmt \in Int
    BY PmtIsInt
<1>4. \A k \in 1..n : k - 1 \in 0..n /\ k \in 0..n /\ k \in Nat
                      /\ owed[k - 1] \in Int /\ owed[k] \in Int
    BY <1>1
<1>5. \A k \in 1..n : J(k) \in Int
    BY <1>4, JurosIsInt
<1>6. \A k \in 1..n : A(k) = IF k < n THEN pmt - J(k) ELSE owed[k - 1]
    BY DEF Repayment
<1> HIDE DEF pmt, J, A
<1>7. \A k \in 1..n : A(k) \in Int
    BY <1>3, <1>4, <1>5, <1>6
<1>8. rows \in Seq(RowType) /\ Len(rows) = n
    <2>1. ASSUME NEW k \in 1..n PROVE rows[k] \in RowType
        <3>1. rows[k] = [venc |-> start + c + (k - 1) * Mes, anterior |-> owed[k - 1],
                         juros |-> J(k), amort |-> A(k),
                         parcela |-> IF k < n THEN pmt ELSE J(k) + A(k),
                         saldo |-> owed[k]]
            BY <1>2
        <3>2. /\ J(k) \in Int /\ A(k) \in Int /\ owed[k - 1] \in Int
              /\ owed[k] \in Int /\ start + c + (k - 1) * Mes \in Int
              /\ (IF k < n THEN pmt ELSE J(k) + A(k)) \in Int
            BY <1>3, <1>4, <1>5, <1>7 DEF PriceAssumption
        <3> QED
            BY <3>1, <3>2 DEF RowType
    <2>2. rows \in [1..n -> RowType]
        BY <1>2, <2>1
    <2> QED
        BY <2>2
<1>9. \A k \in 1..n :
          /\ rows[k].anterior = owed[k - 1] /\ rows[k].saldo = owed[k]
          /\ rows[k].amort = A(k) /\ rows[k].juros = J(k)
          /\ rows[k].parcela = IF k < n THEN pmt ELSE J(k) + A(k)
    BY <1>2
<1>10. \A k \in 1..n : /\ rows[k].saldo = rows[k].anterior - rows[k].amort
                       /\ rows[k].parcela = rows[k].juros + rows[k].amort
    <2>1. ASSUME NEW k \in 1..n
          PROVE  /\ rows[k].saldo = rows[k].anterior - rows[k].amort
                 /\ rows[k].parcela = rows[k].juros + rows[k].amort
        <3>1. /\ rows[k].anterior = owed[k - 1] /\ rows[k].saldo = owed[k]
              /\ rows[k].amort = A(k) /\ rows[k].juros = J(k)
              /\ rows[k].parcela = IF k < n THEN pmt ELSE J(k) + A(k)
            BY <1>9
        <3>2. /\ owed[k] = owed[k - 1] - A(k)
              /\ A(k) = IF k < n THEN pmt - J(k) ELSE owed[k - 1]
            BY <1>1, <1>6
        <3>3. /\ J(k) \in Int /\ A(k) \in Int /\ owed[k - 1] \in Int
              /\ owed[k] \in Int
            BY <1>4, <1>5, <1>7
        <3> QED
            BY <1>3, <3>1, <3>2, <3>3
    <2> QED
        BY <2>1
<1>11. 1 \in 1..n /\ n \in 1..n
    OBVIOUS
<1>12. rows[1].anterior = pv
    BY <1>1, <1>9, <1>11
<1>13. rows[n].saldo = 0
    BY <1>1, <1>4, <1>6, <1>9, <1>11
<1>14. \A i \in 2..n : rows[i].anterior = rows[i - 1].saldo
    <2>1. \A i \in 2..n : i \in 1..n /\ i - 1 \in 1..n
        OBVIOUS
    <2> QED
        BY <1>9, <2>1
<1>15. \A k \in 1..n : rows[k].venc = start + c + (k - 1) * Mes
    BY <1>2
<1> QED
    BY <1>8, <1>10, <1>12, <1>13, <1>14, <1>15 DEF Chain, Monthly, rows

\* The column of a schedule, and what it adds up to.
LEMMA ColumnIsSeq ==
    ASSUME NEW rows \in Seq(RowType),
           NEW c \in {"venc", "anterior", "juros", "amort", "parcela", "saldo"}
    PROVE  /\ Column(rows, c) \in Seq(Int) /\ Len(Column(rows, c)) = Len(rows)
           /\ \A i \in 1..Len(rows) : Column(rows, c)[i] = rows[i][c]
<1>1. DOMAIN rows = 1..Len(rows) /\ Len(rows) \in Nat
    OBVIOUS
<1>2. \A i \in 1..Len(rows) : rows[i][c] \in Int
    <2>1. ASSUME NEW i \in 1..Len(rows) PROVE rows[i][c] \in Int
        <3>1. rows[i] \in RowType
            OBVIOUS
        <3>2. /\ rows[i].venc \in Int /\ rows[i].anterior \in Int
              /\ rows[i].juros \in Int /\ rows[i].amort \in Int
              /\ rows[i].parcela \in Int /\ rows[i].saldo \in Int
            BY <3>1, RowFields
        <3> QED
            BY <3>2
    <2> QED
        BY <2>1
<1>3. Column(rows, c) = [i \in 1..Len(rows) |-> rows[i][c]]
    BY <1>1 DEF Column
<1>4. Column(rows, c) \in [1..Len(rows) -> Int]
    BY <1>2, <1>3
<1> QED
    BY <1>1, <1>3, <1>4

\* g is what the rows have repaid, and every row starts from what is left.
Repays(rows, pv, g) ==
    /\ g \in [0..Len(rows) -> Int]
    /\ Sums(Column(rows, "amort"), g) /\ g[Len(rows)] = pv
    /\ \A i \in 1..Len(rows) : rows[i].anterior = pv - g[i - 1]

LEMMA ChainSums ==
    ASSUME NEW rows, NEW pv \in Int, Chain(rows, pv)
    PROVE  \E g : Repays(rows, pv, g)
<1> DEFINE n == Len(rows)
           amort == Column(rows, "amort")
           g == [i \in 0..n |-> IF i = 0 THEN 0 ELSE pv - rows[i].saldo]
<1>1. rows \in Seq(RowType) /\ n \in Nat /\ n >= 1
    BY DEF Chain
<1>2. /\ amort \in Seq(Int) /\ Len(amort) = n
      /\ \A i \in 1..n : amort[i] = rows[i].amort
    BY <1>1, ColumnIsSeq
<1>3. \A i \in 1..n : /\ rows[i].anterior \in Int /\ rows[i].saldo \in Int
                      /\ rows[i].amort \in Int
                      /\ rows[i].saldo = rows[i].anterior - rows[i].amort
    <2>1. ASSUME NEW i \in 1..n
          PROVE  /\ rows[i].anterior \in Int /\ rows[i].saldo \in Int
                 /\ rows[i].amort \in Int
        <3>1. rows[i] \in RowType
            BY <1>1
        <3> QED
            BY <3>1, RowFields
    <2> QED
        BY <2>1 DEF Chain
<1>4. /\ rows[1].anterior = pv /\ rows[n].saldo = 0
      /\ \A i \in 2..n : rows[i].anterior = rows[i - 1].saldo
    BY DEF Chain
<1> HIDE DEF n, amort
<1>5. g \in [0..n -> Int]
    <2>1. \A i \in 0..n : i = 0 \/ i \in 1..n
        BY <1>1
    <2> QED
        BY <1>3, <2>1
<1>6. g[0] = 0 /\ \A i \in 1..n : g[i] = pv - rows[i].saldo
    <2>1. 0 \in 0..n /\ \A i \in 1..n : i \in 0..n /\ i # 0
        BY <1>1
    <2> QED
        BY <2>1
<1> HIDE DEF g
<1>7. g[n] = pv
    <2>1. n \in 1..n
        BY <1>1
    <2> QED
        BY <1>4, <1>6, <2>1
<1>8. ASSUME NEW i \in 1..n
      PROVE  rows[i].anterior = pv - g[i - 1] /\ g[i] = g[i - 1] + amort[i]
    <2>1. rows[i].anterior = pv - g[i - 1]
        <3>1. CASE i = 1
            BY <1>4, <1>6, <3>1
        <3>2. CASE i # 1
            <4>1. i \in 2..n /\ i - 1 \in 1..n
                BY <1>1, <3>2
            <4>2. g[i - 1] = pv - rows[i - 1].saldo /\ rows[i - 1].saldo \in Int
                BY <1>3, <1>6, <4>1
            <4> QED
                BY <1>4, <4>1, <4>2
        <3> QED
            BY <3>1, <3>2
    <2>2. i - 1 \in 0..n
        BY <1>1
    <2>3. /\ g[i - 1] \in Int /\ g[i] = pv - rows[i].saldo
          /\ rows[i].saldo = rows[i].anterior - rows[i].amort
          /\ amort[i] = rows[i].amort /\ rows[i].amort \in Int
        BY <1>2, <1>3, <1>5, <1>6, <2>2
    <2> QED
        BY <2>1, <2>3
<1>9. Sums(amort, g)
    BY <1>2, <1>6, <1>8 DEF Sums
<1> QED
    BY <1>5, <1>7, <1>8, <1>9 DEF Repays, n, amort

\* The rows repay what they start from, and what they charge is that and the
\* interest.
LEMMA ChainAddsUp ==
    ASSUME NEW rows, NEW pv \in Int, Chain(rows, pv)
    PROVE  /\ Repaid(rows) = pv
           /\ Total(Column(rows, "parcela"))
                = Repaid(rows) + Total(Column(rows, "juros"))
<1> DEFINE n == Len(rows)
           amort == Column(rows, "amort")
           juros == Column(rows, "juros")
           parcela == Column(rows, "parcela")
<1>1. rows \in Seq(RowType) /\ n \in Nat /\ n >= 1
    BY DEF Chain
<1>2. /\ amort \in Seq(Int) /\ Len(amort) = n
      /\ \A i \in 1..n : amort[i] = rows[i].amort
    BY <1>1, ColumnIsSeq
<1>3. /\ juros \in Seq(Int) /\ Len(juros) = n
      /\ \A i \in 1..n : juros[i] = rows[i].juros
    BY <1>1, ColumnIsSeq
<1>4. /\ parcela \in Seq(Int) /\ Len(parcela) = n
      /\ \A i \in 1..n : parcela[i] = rows[i].parcela
    BY <1>1, ColumnIsSeq
<1>5. \A i \in 1..n : /\ rows[i].anterior \in Int /\ rows[i].saldo \in Int
                      /\ rows[i].amort \in Int /\ rows[i].juros \in Int
                      /\ rows[i].saldo = rows[i].anterior - rows[i].amort
                      /\ rows[i].parcela = rows[i].juros + rows[i].amort
    <2>1. ASSUME NEW i \in 1..n
          PROVE  /\ rows[i].anterior \in Int /\ rows[i].saldo \in Int
                 /\ rows[i].amort \in Int /\ rows[i].juros \in Int
        <3>1. rows[i] \in RowType
            BY <1>1
        <3> QED
            BY <3>1, RowFields
    <2> QED
        BY <2>1 DEF Chain
<1> HIDE DEF n, amort, juros, parcela
<1>6. Total(amort) = pv
    <2>1. PICK g : Repays(rows, pv, g)
        BY ChainSums
    <2>2. Sums(amort, g) /\ g[n] = pv
        BY <2>1 DEF Repays, n, amort
    <2> QED
        BY <1>2, <2>2, TotalIs
<1>7. Total(parcela) = Total(amort) + Total(juros)
    <2>1. PICK g \in [0..n -> Int] : Sums(amort, g) /\ Total(amort) = g[n]
        BY <1>2, SumsExist
    <2>2. PICK h \in [0..n -> Int] : Sums(juros, h) /\ Total(juros) = h[n]
        BY <1>3, SumsExist
    <2> DEFINE f == [i \in 0..n |-> g[i] + h[i]]
    <2>3. \A i \in 0..n : f[i] = g[i] + h[i]
        OBVIOUS
    <2> HIDE DEF f
    <2>4. \A i \in 1..n : i \in 0..n /\ i - 1 \in 0..n
        BY <1>1
    <2>5. f[0] = 0
        <3>1. 0 \in 0..n
            BY <1>1
        <3> QED
            BY <2>1, <2>2, <2>3, <3>1 DEF Sums
    <2>6. ASSUME NEW i \in 1..n PROVE f[i] = f[i - 1] + parcela[i]
        <3>1. g[i] = g[i - 1] + amort[i] /\ h[i] = h[i - 1] + juros[i]
            BY <1>2, <1>3, <2>1, <2>2 DEF Sums
        <3>2. /\ g[i - 1] \in Int /\ h[i - 1] \in Int
              /\ amort[i] \in Int /\ juros[i] \in Int
              /\ parcela[i] = juros[i] + amort[i]
            BY <1>2, <1>3, <1>4, <1>5, <2>1, <2>2, <2>4
        <3> QED
            BY <2>3, <2>4, <3>1, <3>2
    <2>7. Sums(parcela, f)
        BY <1>4, <2>5, <2>6 DEF Sums
    <2>8. Total(parcela) = f[n]
        BY <1>4, <2>7, TotalIs
    <2>9. n \in 0..n
        BY <1>1
    <2> QED
        BY <2>1, <2>2, <2>3, <2>8, <2>9
<1> QED
    BY <1>6, <1>7 DEF Repaid, n, amort, juros, parcela

-----------------------------------------------------------------------------
(* The tax, and the simulation *)

LEMMA TotalIsInt ==
    ASSUME NEW s \in Seq(Int)
    PROVE  Total(s) \in Int
<1>1. PICK g \in [0..Len(s) -> Int] : Sums(s, g) /\ Total(s) = g[Len(s)]
    BY SumsExist
<1> QED
    BY <1>1, TotalIs

LEMMA IofIsInt ==
    ASSUME PriceAssumption, NEW pv \in Int, NEW rows \in Seq(RowType)
    PROVE  Iof(pv, rows) \in Int
<1> DEFINE tax(i) == rows[i].amort * Diario * Least(rows[i].venc, MaxDias)
           s == [i \in DOMAIN rows |-> tax(i)]
<1>1. IofUnit \in Int /\ IofUnit > 0 /\ Fixo \in Int /\ Diario \in Int
      /\ MaxDias \in Int
    BY DEF PriceAssumption
<1>2. ASSUME NEW i \in 1..Len(rows) PROVE tax(i) \in Int
    <2>1. rows[i] \in RowType
        OBVIOUS
    <2>2. rows[i].amort \in Int /\ rows[i].venc \in Int
        BY <2>1, RowFields
    <2>3. Least(rows[i].venc, MaxDias) \in Int
        BY <1>1, <2>2 DEF Least
    <2>4. rows[i].amort * Diario \in Int
        BY <1>1, <2>2
    <2> QED
        BY <2>3, <2>4
<1> HIDE DEF tax
<1>3. s \in Seq(Int)
    <2>1. DOMAIN rows = 1..Len(rows) /\ Len(rows) \in Nat
        OBVIOUS
    <2>2. s \in [1..Len(rows) -> Int]
        BY <1>2, <2>1
    <2> QED
        BY <2>1, <2>2
<1> HIDE DEF s
<1>4. Total(s) \in Int
    BY <1>3, TotalIsInt
<1>5. pv * Fixo \in Int
    BY <1>1
<1>6. Rounded(pv * Fixo, IofUnit) \in Int /\ Rounded(Total(s), IofUnit) \in Int
    BY <1>1, <1>4, <1>5, RoundedIsInt
<1>7. Iof(pv, rows) = Rounded(pv * Fixo, IofUnit) + Rounded(Total(s), IofUnit)
    BY DEF Iof, s, tax
<1> QED
    BY <1>6, <1>7

RoundType == [pv: Int, rows: Seq(RowType), iof: Int, met: BOOLEAN]

\* What a round of tax and schedule makes of x.
NextRound(inicial, r, n, c, x) ==
    LET rows == Schedule(x.pv, r, n, c, 0)
        iof == Iof(x.pv, rows)
    IN IF x.met THEN x
       ELSE [pv |-> inicial + iof, rows |-> rows, iof |-> iof,
             met |-> inicial + iof = x.pv]

\* An outcome of some round.
Taxed(inicial, r, n, c, x) ==
    /\ \E y \in Int : x.rows = Schedule(y, r, n, c, 0)
    /\ x.iof \in Int /\ x.pv = inicial + x.iof

LEMMA RoundsKeep ==
    ASSUME PriceAssumption, NEW inicial \in Int, NEW r \in Nat, NEW n \in Nat,
           n >= 1, NEW c \in Nat, Grown(r, c), NEW x \in RoundType
    PROVE  LET y == NextRound(inicial, r, n, c, x) IN
           /\ y \in RoundType
           /\ x.met \/ Taxed(inicial, r, n, c, y)
<1> DEFINE rows == Schedule(x.pv, r, n, c, 0)
           iof == Iof(x.pv, rows)
           y == NextRound(inicial, r, n, c, x)
<1>1. x.pv \in Int /\ x.met \in BOOLEAN
    BY DEF RoundType
<1>2. Chain(rows, x.pv)
    <2> DEFINE pv == x.pv
    <2>1. pv \in Int /\ 0 \in Int
        BY <1>1
    <2> HIDE DEF pv
    <2>2. Monthly(Schedule(pv, r, n, c, 0), pv, n, c, 0)
        BY <2>1, ScheduleIsMonthly
    <2> QED
        BY <2>2 DEF pv, Monthly
<1>3. rows \in Seq(RowType)
    BY <1>2 DEF Chain
<1> HIDE DEF rows
<1>4. iof \in Int
    BY <1>1, <1>3, IofIsInt
<1>5. y = IF x.met THEN x
          ELSE [pv |-> inicial + iof, rows |-> rows, iof |-> iof,
                met |-> inicial + iof = x.pv]
    BY DEF NextRound, rows
<1> HIDE DEF y, iof
<1>6. CASE x.met
    BY <1>5, <1>6 DEF y
<1>7. CASE ~x.met
    <2>1. y = [pv |-> inicial + iof, rows |-> rows, iof |-> iof,
               met |-> inicial + iof = x.pv]
        BY <1>5, <1>7
    <2>2. y \in RoundType
        BY <1>3, <1>4, <2>1 DEF RoundType
    <2>3. y.rows = rows /\ y.iof = iof /\ y.pv = inicial + iof
        BY <2>1
    <2>4. Taxed(inicial, r, n, c, y)
        BY <1>1, <1>4, <2>3 DEF Taxed, rows
    <2> QED
        BY <2>2, <2>4 DEF y
<1> QED
    BY <1>6, <1>7

LEMMA FinancedIsTaxed ==
    ASSUME PriceAssumption, NEW inicial \in Int, NEW r \in Nat, NEW n \in Nat,
           n >= 1, NEW c \in Nat, Grown(r, c)
    PROVE  Taxed(inicial, r, n, c, Financed(inicial, r, n, c))
<1> DEFINE R(x) == NextRound(inicial, r, n, c, x)
           a == [pv |-> inicial, rows |-> <<>>, iof |-> 0, met |-> FALSE]
           m == MaxIter
           step == [k \in 1..m |-> [x \in RoundType |-> R(x)]]
           round == CHOOSE f : f = [k \in 0..m |->
                                      IF k = 0 THEN a ELSE R(f[k - 1])]
<1>1. Financed(inicial, r, n, c) = round[m]
    BY DEF Financed, NextRound
<1>2. a \in RoundType /\ a.met = FALSE
    BY DEF RoundType
<1>3. \A x \in RoundType : R(x) \in RoundType
    BY RoundsKeep
<1>4. \A x \in RoundType : x.met \/ Taxed(inicial, r, n, c, R(x))
    BY RoundsKeep
<1>5. \A x \in RoundType : x.met => R(x) = x
    BY DEF NextRound
<1>6. m \in Nat /\ m >= 1
    BY DEF MaxIter
<1> HIDE DEF R, a, m
<1>7. /\ step \in [1..m -> [RoundType -> RoundType]]
      /\ \A k \in 1..m : \A x \in RoundType : step[k][x] = R(x)
    BY <1>3
<1> HIDE DEF step
<1>8. PICK f : f \in [0..m -> RoundType] /\ Iterates(f, a, m, step)
    BY <1>2, <1>6, <1>7, IteratesExist
<1>9. \A k \in 0..m : f[k] = IF k = 0 THEN a ELSE R(f[k - 1])
    <2>1. \A k \in 1..m : k - 1 \in 0..m /\ f[k - 1] \in RoundType
        BY <1>6, <1>8
    <2>2. \A k \in 0..m : k = 0 \/ k \in 1..m
        BY <1>6
    <2> QED
        BY <1>7, <1>8, <2>1, <2>2 DEF Iterates
<1>10. f = [k \in 0..m |-> IF k = 0 THEN a ELSE R(f[k - 1])]
    BY <1>8, <1>9
<1>11. round = [k \in 0..m |-> IF k = 0 THEN a ELSE R(round[k - 1])]
    BY <1>10
<1> HIDE DEF round
<1>12. round[0] = a /\ \A k \in 1..m : round[k] = R(round[k - 1])
    <2>1. \A k \in 0..m : round[k] = IF k = 0 THEN a ELSE R(round[k - 1])
        BY <1>11
    <2>2. 0 \in 0..m /\ \A k \in 1..m : k \in 0..m /\ k # 0
        BY <1>6
    <2> QED
        BY <2>1, <2>2
<1> DEFINE Fine(k) == /\ round[k] \in RoundType
                      /\ IF k = 0 THEN ~round[k].met
                         ELSE Taxed(inicial, r, n, c, round[k])
           Q == {k \in 0..m : Fine(k)}
<1>13. 0 \in Q /\ Q \in SUBSET (0..m)
    BY <1>2, <1>6, <1>12
<1>14. ASSUME NEW k \in 1..m, k - 1 \in Q PROVE k \in Q
    <2>1. Fine(k - 1) /\ k \in 0..m /\ k # 0
        BY <1>6, <1>14
    <2>2. round[k] = R(round[k - 1])
        BY <1>12
    <2>3. round[k] \in RoundType
        BY <1>3, <2>1, <2>2
    <2>4. Taxed(inicial, r, n, c, round[k])
        <3>1. CASE round[k - 1].met
            BY <1>5, <2>1, <2>2, <3>1
        <3>2. CASE ~round[k - 1].met
            BY <1>4, <2>1, <2>2, <3>2
        <3> QED
            BY <3>1, <3>2
    <2> QED
        BY <2>1, <2>3, <2>4
<1> HIDE DEF Q
<1>15. Q = 0..m
    BY <1>6, <1>13, <1>14, UpTo
<1>16. m \in Q /\ m # 0
    BY <1>6, <1>15
<1> QED
    BY <1>1, <1>16 DEF Q

-----------------------------------------------------------------------------
(* What rounding may cost *)

\* Rounding moves a quotient by half at most, either way.
LEMMA RoundedNear ==
    ASSUME NEW a \in Int, NEW b \in Nat, b >= 1
    PROVE  /\ Rounded(a, b) \in Int
           /\ 2 * (Rounded(a, b) * b) <= 2 * a + b
           /\ 2 * a - b <= 2 * (Rounded(a, b) * b)
<1> DEFINE q == a \div b
           m == a % b
<1>1. q \in Int /\ m \in Int /\ 0 <= m /\ m < b /\ a = b * q + m
    OBVIOUS
<1>2. Rounded(a, b) = q + (IF 2 * m >= b THEN 1 ELSE 0)
    BY DEF Rounded
<1> HIDE DEF q, m
<1>3. b * q = q * b /\ (q + 1) * b = q * b + b /\ q * b \in Int
    BY <1>1
<1>4. CASE 2 * m >= b
    BY <1>1, <1>2, <1>3, <1>4
<1>5. CASE ~(2 * m >= b)
    BY <1>1, <1>2, <1>3, <1>5
<1> QED
    BY <1>4, <1>5

LEMMA PowersAre ==
    ASSUME NEW x \in Nat, NEW m \in Nat, NEW g, Powers(x, m, g)
    PROVE  \A k \in 0..m : g[k] = Power(x, k)
<1> SUFFICES ASSUME NEW k \in 0..m PROVE g[k] = Power(x, k)
    OBVIOUS
<1>1. k \in Nat /\ k <= m
    OBVIOUS
<1>2. PICK h \in [0..k -> Nat] : Powers(x, k, h) /\ Power(x, k) = h[k]
    BY <1>1, PowersExist
<1> DEFINE Q == {i \in 0..k : h[i] = g[i]}
<1>3. 0 \in Q /\ Q \in SUBSET (0..k)
    BY <1>1, <1>2 DEF Powers
<1>4. \A i \in 1..k : i - 1 \in Q => i \in Q
    BY <1>1, <1>2 DEF Powers
<1> HIDE DEF Q
<1>5. Q = 0..k
    BY <1>1, <1>3, <1>4, UpTo
<1> QED
    BY <1>1, <1>2, <1>5 DEF Q

LEMMA PowerStep ==
    ASSUME NEW x \in Nat, NEW k \in Nat
    PROVE  /\ Power(x, 0) = 1 /\ Power(x, k) \in Nat
           /\ Power(x, k + 1) = x * Power(x, k)
<1> DEFINE m == k + 1
<1>1. m \in Nat /\ m - 1 = k /\ 0 \in 0..m /\ k \in 0..m /\ m \in 0..m /\ m \in 1..m
    OBVIOUS
<1> HIDE DEF m
<1>2. PICK g \in [0..m -> Nat] : Powers(x, m, g) /\ Power(x, m) = g[m]
    BY <1>1, PowersExist
<1>3. \A i \in 0..m : g[i] = Power(x, i)
    BY <1>1, <1>2, PowersAre
<1>4. Power(x, m) = x * g[k]
    BY <1>1, <1>2 DEF Powers
<1>5. Power(x, 0) = 1 /\ Power(x, k) \in Nat
    BY <1>1, <1>2, <1>3 DEF Powers
<1>6. g[k] = Power(x, k)
    BY <1>1, <1>3
<1>7. Power(x, m) = x * Power(x, k)
    BY <1>4, <1>6
<1> QED
    BY <1>5, <1>7 DEF m

LEMMA PowerAdds ==
    ASSUME NEW x \in Nat, NEW a \in Nat, NEW b \in Nat
    PROVE  Power(x, a + b) = Power(x, a) * Power(x, b)
<1> DEFINE P == {k \in Nat : Power(x, a + k) = Power(x, a) * Power(x, k)}
<1>1. 0 \in P
    <2>1. Power(x, 0) = 1 /\ Power(x, a) \in Nat
        BY PowerStep
    <2> QED
        BY <2>1
<1>2. ASSUME NEW k \in P PROVE k + 1 \in P
    <2>1. k \in Nat /\ a + k \in Nat /\ Power(x, a + k) = Power(x, a) * Power(x, k)
        OBVIOUS
    <2>2. Power(x, (a + k) + 1) = x * Power(x, a + k)
        BY <2>1, PowerStep
    <2>3. Power(x, k + 1) = x * Power(x, k) /\ Power(x, k) \in Nat
          /\ Power(x, a) \in Nat
        BY <2>1, PowerStep
    <2>4. x * (Power(x, a) * Power(x, k)) = Power(x, a) * (x * Power(x, k))
        <3> DEFINE v == Power(x, a)
                   w == Power(x, k)
        <3>1. v \in Nat /\ w \in Nat
            BY <2>3
        <3> HIDE DEF v, w
        <3>2. x * (v * w) = v * (x * w)
            BY <3>1
        <3> QED
            BY <3>2 DEF v, w
    <2>5. (a + k) + 1 = a + (k + 1) /\ k + 1 \in Nat
        BY <2>1
    <2>6. Power(x, a + (k + 1)) = Power(x, a) * Power(x, k + 1)
        BY <2>1, <2>2, <2>3, <2>4, <2>5
    <2> QED
        BY <2>5, <2>6
<1>3. P = Nat
    <2> HIDE DEF P
    <2>1. P \in SUBSET Nat
        BY DEF P
    <2> QED
        BY <1>1, <1>2, <2>1, Induction
<1> QED
    BY <1>3

\* What 1 grows to in c days and m months, over Base(r, c, m).
Up(r, c, m) == Num(r, c) * Power(RateUnit + r, m)
Base(r, c, m) == Den(r, c) * Power(RateUnit, m)

LEMMA UpIs ==
    ASSUME PriceAssumption, NEW r \in Nat, NEW c \in Nat, Grown(r, c),
           NEW m \in Nat
    PROVE  /\ Up(r, c, m) \in Nat /\ Base(r, c, m) \in Nat /\ Base(r, c, m) >= 1
           /\ Up(r, c, 0) = Num(r, c) /\ Base(r, c, 0) = Den(r, c)
           /\ Up(r, c, m + 1) = (RateUnit + r) * Up(r, c, m)
           /\ Base(r, c, m + 1) = RateUnit * Base(r, c, m)
<1> DEFINE u == RateUnit + r
           a == Num(r, c)
           b == Den(r, c)
           v == Power(u, m)
           w == Power(RateUnit, m)
<1>1. u \in Nat /\ u >= 1 /\ RateUnit \in Nat /\ RateUnit >= 1
    BY DEF PriceAssumption
<1>2. a \in Nat /\ b \in Nat /\ b >= 1
    BY DEF Grown
<1> HIDE DEF u, a, b
<1>3. /\ v \in Nat /\ w \in Nat /\ w >= 1
      /\ Power(u, 0) = 1 /\ Power(RateUnit, 0) = 1
      /\ Power(u, m + 1) = u * v /\ Power(RateUnit, m + 1) = RateUnit * w
    BY <1>1, PowerStep, PowerIsPositive
<1>4. /\ Up(r, c, m) = a * v /\ Base(r, c, m) = b * w
      /\ Up(r, c, 0) = a * Power(u, 0) /\ Base(r, c, 0) = b * Power(RateUnit, 0)
      /\ Up(r, c, m + 1) = a * Power(u, m + 1)
      /\ Base(r, c, m + 1) = b * Power(RateUnit, m + 1)
    BY DEF Up, Base, u, a, b
<1> HIDE DEF v, w
<1>5. a * v \in Nat /\ b * w \in Nat /\ 1 * 1 <= b * w
    BY <1>2, <1>3, ProductsGrow
<1>6. a * (u * v) = u * (a * v) /\ b * (RateUnit * w) = RateUnit * (b * w)
    BY <1>1, <1>2, <1>3
<1>7. a * Power(u, 0) = a /\ b * Power(RateUnit, 0) = b
    BY <1>2, <1>3
<1> QED
    BY <1>3, <1>4, <1>5, <1>6, <1>7 DEF u, a, b

LEMMA UpAdds ==
    ASSUME PriceAssumption, NEW r \in Nat, NEW c \in Nat, Grown(r, c),
           NEW k \in Nat, NEW m \in Nat
    PROVE  Up(r, c, k + m) = Up(r, c, k) * Power(RateUnit + r, m)
<1> DEFINE u == RateUnit + r
           a == Num(r, c)
           v == Power(u, k)
           w == Power(u, m)
<1>1. u \in Nat /\ a \in Nat
    BY DEF PriceAssumption, Grown
<1>2. Up(r, c, k + m) = a * Power(u, k + m) /\ Up(r, c, k) = a * v
    BY DEF Up
<1> HIDE DEF u, a
<1>3. Power(u, k + m) = v * w
    BY <1>1, PowerAdds
<1>4. v \in Nat /\ w \in Nat
    BY <1>1, PowerStep
<1> HIDE DEF v, w
<1>5. a * (v * w) = (a * v) * w
    BY <1>1, <1>4
<1> QED
    BY <1>2, <1>3, <1>5 DEF u, w

\* What a cent a month grows to, month by month.
Grows(r, n, f) ==
    /\ f \in [0..n -> Nat] /\ f[0] = 0
    /\ \A k \in 1..n : f[k] = (RateUnit + r) * f[k - 1] + Power(RateUnit, k - 1)

LEMMA CentsExist ==
    ASSUME PriceAssumption, NEW r \in Nat, NEW n \in Nat
    PROVE  \E f : Grows(r, n, f) /\ Cents(r, n) = f[n]
<1> DEFINE u == RateUnit + r
           step == [k \in 1..n |-> [y \in Nat |-> u * y + Power(RateUnit, k - 1)]]
           p == CHOOSE f : f = [k \in 0..n |->
                   IF k = 0 THEN 0 ELSE u * f[k - 1] + Power(RateUnit, k - 1)]
<1>1. u \in Nat /\ RateUnit \in Nat
    BY DEF PriceAssumption
<1>2. Cents(r, n) = p[n]
    BY DEF Cents
<1> HIDE DEF u
<1>3. \A k \in 1..n : \A y \in Nat : u * y + Power(RateUnit, k - 1) \in Nat
    <2> SUFFICES ASSUME NEW k \in 1..n, NEW y \in Nat
                 PROVE  u * y + Power(RateUnit, k - 1) \in Nat
        OBVIOUS
    <2>1. k - 1 \in Nat
        OBVIOUS
    <2>2. Power(RateUnit, k - 1) \in Nat
        BY <1>1, <2>1, PowerStep
    <2> QED
        BY <1>1, <2>2
<1>4. /\ step \in [1..n -> [Nat -> Nat]]
      /\ \A k \in 1..n : \A y \in Nat : step[k][y] = u * y + Power(RateUnit, k - 1)
    BY <1>3
<1> HIDE DEF step
<1>5. PICK f : f \in [0..n -> Nat] /\ Iterates(f, 0, n, step)
    <2>1. 0 \in Nat
        OBVIOUS
    <2> QED
        BY <1>4, <2>1, IteratesExist
<1>6. f[0] = 0 /\ \A k \in 1..n : f[k] = u * f[k - 1] + Power(RateUnit, k - 1)
    <2>1. \A k \in 1..n : k - 1 \in 0..n /\ f[k - 1] \in Nat
        BY <1>5
    <2> QED
        BY <1>4, <1>5, <2>1 DEF Iterates
<1>7. \A k \in 0..n : f[k] = IF k = 0 THEN 0
                             ELSE u * f[k - 1] + Power(RateUnit, k - 1)
    <2>1. \A k \in 0..n : k = 0 \/ k \in 1..n
        OBVIOUS
    <2> QED
        BY <1>6, <2>1
<1>8. f = [k \in 0..n |-> IF k = 0 THEN 0
                          ELSE u * f[k - 1] + Power(RateUnit, k - 1)]
    BY <1>5, <1>7
<1>9. p = [k \in 0..n |-> IF k = 0 THEN 0
                          ELSE u * p[k - 1] + Power(RateUnit, k - 1)]
    BY <1>8
<1> HIDE DEF p
<1>10. p[0] = 0 /\ \A k \in 1..n : p[k] = u * p[k - 1] + Power(RateUnit, k - 1)
    <2>1. \A k \in 0..n : p[k] = IF k = 0 THEN 0
                                 ELSE u * p[k - 1] + Power(RateUnit, k - 1)
        BY <1>9
    <2>2. 0 \in 0..n /\ \A k \in 1..n : k \in 0..n /\ k # 0
        OBVIOUS
    <2> QED
        BY <2>1, <2>2
<1>11. \A k \in 0..n : p[k] = f[k]
    <2> DEFINE Q == {k \in 0..n : p[k] = f[k]}
    <2>1. 0 \in Q /\ Q \in SUBSET (0..n)
        BY <1>6, <1>10
    <2>2. \A k \in 1..n : k - 1 \in Q => k \in Q
        BY <1>6, <1>10
    <2> HIDE DEF Q
    <2>3. Q = 0..n
        BY <2>1, <2>2, UpTo
    <2> QED
        BY <2>3 DEF Q
<1>12. Grows(r, n, f) /\ Cents(r, n) = f[n]
    BY <1>2, <1>5, <1>6, <1>11 DEF Grows, u
<1> QED
    BY <1>12

LEMMA CentsAre ==
    ASSUME PriceAssumption, NEW r \in Nat, NEW n \in Nat, NEW f, Grows(r, n, f)
    PROVE  \A k \in 0..n : f[k] = Cents(r, k)
<1> SUFFICES ASSUME NEW k \in 0..n PROVE f[k] = Cents(r, k)
    OBVIOUS
<1>1. k \in Nat /\ k <= n
    OBVIOUS
<1>2. PICK h : Grows(r, k, h) /\ Cents(r, k) = h[k]
    BY <1>1, CentsExist
<1> DEFINE Q == {i \in 0..k : h[i] = f[i]}
<1>3. 0 \in Q /\ Q \in SUBSET (0..k)
    BY <1>1, <1>2 DEF Grows
<1>4. ASSUME NEW i \in 1..k, i - 1 \in Q PROVE i \in Q
    <2>1. i \in 1..n /\ h[i - 1] = f[i - 1]
        BY <1>1, <1>4
    <2> QED
        BY <1>2, <2>1 DEF Grows
<1> HIDE DEF Q
<1>5. Q = 0..k
    BY <1>1, <1>3, <1>4, UpTo
<1> QED
    BY <1>1, <1>2, <1>5 DEF Q

LEMMA CentsStep ==
    ASSUME PriceAssumption, NEW r \in Nat, NEW k \in Nat
    PROVE  /\ Cents(r, 0) = 0 /\ Cents(r, k) \in Nat
           /\ Cents(r, k + 1) = (RateUnit + r) * Cents(r, k) + Power(RateUnit, k)
<1> DEFINE m == k + 1
<1>1. m \in Nat /\ m - 1 = k /\ 0 \in 0..m /\ k \in 0..m /\ m \in 0..m /\ m \in 1..m
    OBVIOUS
<1> HIDE DEF m
<1>2. PICK f : Grows(r, m, f) /\ Cents(r, m) = f[m]
    BY <1>1, CentsExist
<1>3. f[0] = Cents(r, 0) /\ f[k] = Cents(r, k) /\ f[m] = Cents(r, m)
    BY <1>1, <1>2, CentsAre
<1>4. /\ f[0] = 0 /\ f[k] \in Nat
      /\ f[m] = (RateUnit + r) * f[k] + Power(RateUnit, k)
    BY <1>1, <1>2 DEF Grows
<1> QED
    BY <1>3, <1>4 DEF m

\* The first j months' cents grow on while the next k months' are added.
LEMMA CentsSplit ==
    ASSUME PriceAssumption, NEW r \in Nat, NEW j \in Nat, NEW k \in Nat
    PROVE  Cents(r, j + k) = Power(RateUnit + r, k) * Cents(r, j)
                               + Power(RateUnit, j) * Cents(r, k)
<1> DEFINE u == RateUnit + r
           C(m) == Cents(r, m)
           P == {m \in Nat : C(j + m) = Power(u, m) * C(j) + Power(RateUnit, j) * C(m)}
<1>1. u \in Nat /\ RateUnit \in Nat
    BY DEF PriceAssumption
<1>2. \A m \in Nat : C(m) \in Nat /\ C(0) = 0 /\ C(m + 1) = u * C(m) + Power(RateUnit, m)
    BY CentsStep
<1> HIDE DEF u, C
<1>3. 0 \in P
    <2>1. Power(u, 0) = 1 /\ C(0) = 0 /\ C(j) \in Nat /\ Power(RateUnit, j) \in Nat
        BY <1>1, <1>2, PowerStep
    <2> QED
        BY <2>1
<1>4. ASSUME NEW m \in P PROVE m + 1 \in P
    <2> DEFINE a == C(j)
               b == C(m)
               v == Power(u, m)
               w == Power(RateUnit, j)
               x == Power(RateUnit, m)
    <2>1. m \in Nat /\ m + 1 \in Nat /\ j + m \in Nat /\ j + (m + 1) = (j + m) + 1
        OBVIOUS
    <2>2. C(j + m) = v * a + w * b
        BY <1>4
    <2>3. /\ a \in Nat /\ b \in Nat /\ v \in Nat /\ w \in Nat /\ x \in Nat
          /\ Power(u, m + 1) = u * v
        BY <1>1, <1>2, <2>1, PowerStep
    <2>4. C(j + (m + 1)) = u * C(j + m) + w * x /\ C(m + 1) = u * b + x
        <3>1. Power(RateUnit, j + m) = w * x
            BY <1>1, <2>1, PowerAdds
        <3>2. C((j + m) + 1) = u * C(j + m) + Power(RateUnit, j + m)
              /\ C(m + 1) = u * C(m) + Power(RateUnit, m)
            BY <1>2, <2>1
        <3> QED
            BY <2>1, <3>1, <3>2
    <2> HIDE DEF a, b, v, w, x
    <2>5. u * (v * a + w * b) + w * x = (u * v) * a + w * (u * b + x)
        BY <1>1, <2>3
    <2>6. C(j + (m + 1)) = Power(u, m + 1) * a + w * C(m + 1)
        BY <2>2, <2>3, <2>4, <2>5
    <2> QED
        BY <2>1, <2>6 DEF a, w
<1> HIDE DEF P
<1>5. P = Nat
    <2>1. P \in SUBSET Nat
        BY DEF P
    <2> QED
        BY <1>3, <1>4, <2>1, Induction
<1> QED
    BY <1>5 DEF P, C, u

LEMMA Scaled ==
    ASSUME NEW a \in Int, NEW b \in Int, NEW x \in Nat, a <= b
    PROVE  a * x <= b * x
<1>1. PICK d \in Nat : b = a + d
    <2>1. b - a \in Nat /\ b = a + (b - a)
        OBVIOUS
    <2> QED
        BY <2>1
<1>2. (a + d) * x = a * x + d * x /\ d * x \in Nat /\ a * x \in Int
    OBVIOUS
<1> QED
    BY <1>1, <1>2

LEMMA OneMore ==
    ASSUME NEW a \in Int, NEW x \in Nat
    PROVE  (a + 1) * x = a * x + x /\ a * x \in Int
OBVIOUS

LEMMA Unscaled ==
    ASSUME NEW a \in Int, NEW b \in Int, NEW x \in Nat, x >= 1, a * x <= b * x
    PROVE  a <= b
<1> SUFFICES ASSUME b + 1 <= a PROVE FALSE
    OBVIOUS
<1>1. (b + 1) * x <= a * x
    BY Scaled
<1>2. (b + 1) * x = b * x + x /\ b * x \in Int /\ a * x \in Int
    OBVIOUS
<1> QED
    BY <1>1, <1>2

LEMMA Geometric ==
    ASSUME PriceAssumption, NEW r \in Nat, NEW n \in Nat, NEW f, Grows(r, n, f)
    PROVE  \A k \in 0..n : /\ r * f[k] + Power(RateUnit, k) = Power(RateUnit + r, k)
                           /\ r = 0 => RateUnit * f[k] = k * Power(RateUnit, k)
<1> DEFINE u == RateUnit + r
           Q == {k \in 0..n :
                   /\ r * f[k] + Power(RateUnit, k) = Power(u, k)
                   /\ r = 0 => RateUnit * f[k] = k * Power(RateUnit, k)}
<1>1. u \in Nat /\ RateUnit \in Nat /\ u = RateUnit + r
    BY DEF PriceAssumption
<1> HIDE DEF u
<1>2. 0 \in Q
    <2>1. Power(u, 0) = 1 /\ Power(RateUnit, 0) = 1
        BY <1>1, PowerStep
    <2> QED
        BY <1>1, <2>1 DEF Grows
<1>3. ASSUME NEW k \in 1..n, k - 1 \in Q PROVE k \in Q
    <2> DEFINE m == k - 1
               g == f[m]
               v == Power(RateUnit, m)
               w == Power(u, m)
    <2>1. m \in Nat /\ m + 1 = k /\ m \in 0..n
        BY <1>3
    <2>2. g \in Nat /\ f[k] = u * g + v
        BY <1>1, <2>1 DEF Grows
    <2>3. /\ v \in Nat /\ w \in Nat
          /\ Power(RateUnit, k) = RateUnit * v /\ Power(u, k) = u * w
        <3>1. /\ Power(RateUnit, m + 1) = RateUnit * Power(RateUnit, m)
              /\ Power(u, m + 1) = u * Power(u, m)
              /\ Power(RateUnit, m) \in Nat /\ Power(u, m) \in Nat
            BY <1>1, <2>1, PowerStep
        <3> QED
            BY <2>1, <3>1
    <2>4. r * g + v = w /\ (r = 0 => RateUnit * g = m * v)
        BY <1>3
    <2> HIDE DEF m, g, v, w
    <2>5. r * (u * g + v) + RateUnit * v = u * (r * g + v)
        <3>1. r * ((RateUnit + r) * g + v) + RateUnit * v = (RateUnit + r) * (r * g + v)
            BY <1>1, <2>2, <2>3
        <3> QED
            BY <1>1, <3>1
    <2>6. r * f[k] + Power(RateUnit, k) = Power(u, k)
        BY <2>2, <2>3, <2>4, <2>5
    <2>7. ASSUME r = 0 PROVE RateUnit * f[k] = k * Power(RateUnit, k)
        <3>1. u = RateUnit /\ RateUnit * g = m * v
            BY <1>1, <2>4, <2>7
        <3>2. RateUnit * (m * v + v) = (m + 1) * (RateUnit * v)
            BY <1>1, <2>1, <2>3
        <3>3. f[k] = m * v + v
            BY <2>2, <3>1
        <3> QED
            BY <2>1, <2>3, <3>2, <3>3
    <2> QED
        BY <2>6, <2>7
<1> HIDE DEF Q
<1>4. Q = 0..n
    <2>1. Q \in SUBSET (0..n)
        BY DEF Q
    <2> QED
        BY <1>2, <1>3, <2>1, UpTo
<1> QED
    BY <1>4 DEF Q, u

\* The instalment repays the loan but for the half cent it is rounded by.
LEMMA PmtRepays ==
    ASSUME PriceAssumption, NEW y \in Int, NEW r \in Nat, NEW n \in Nat, n >= 1,
           NEW c \in Nat, Grown(r, c), NEW f, Grows(r, n, f)
    PROVE  LET F == Den(r, c) * f[n]
               a == 2 * (Pmt(y, r, n, c) * F)
               b == 2 * (y * Up(r, c, n - 1))
           IN a <= b + F /\ b <= a + F
<1> DEFINE u == RateUnit + r
           W == Den(r, c)
           U == Up(r, c, n - 1)
           F == W * f[n]
           p == Pmt(y, r, n, c)
<1>1. u \in Nat /\ RateUnit \in Nat /\ RateUnit >= 1 /\ n - 1 \in Nat /\ u >= 1
    BY DEF PriceAssumption
<1>2. W \in Nat /\ W >= 1 /\ U \in Nat /\ f[n] \in Nat /\ p \in Int
    <2>1. f[n] \in Nat
        BY DEF Grows
    <2> HIDE DEF u
    <2>2. U \in Nat /\ W \in Nat /\ W >= 1
        BY <1>1, UpIs DEF Grown
    <2> QED
        BY <2>1, <2>2, PmtIsInt
<1>3. F \in Nat
    BY <1>2
<1>4. CASE r = 0
    <2> DEFINE v == Power(RateUnit, n - 1)
    <2>1. v \in Nat /\ Power(RateUnit, n) = RateUnit * v
        <3> DEFINE m == n - 1
        <3>1. m \in Nat /\ m + 1 = n
            BY <1>1
        <3> HIDE DEF m
        <3>2. Power(RateUnit, m) \in Nat
              /\ Power(RateUnit, m + 1) = RateUnit * Power(RateUnit, m)
            BY <1>1, <3>1, PowerStep
        <3> QED
            BY <3>1, <3>2 DEF m
    <2>2. RateUnit * f[n] = n * Power(RateUnit, n)
        <3>1. n \in 0..n
            OBVIOUS
        <3> QED
            BY <1>4, <3>1, Geometric
    <2>3. U = W * v
        <3>1. Num(r, c) = W /\ u = RateUnit
            BY <1>1, <1>4 DEF Grown
        <3> QED
            BY <3>1 DEF Up
    <2>4. p = Rounded(y, n)
        BY <1>4 DEF Pmt
    <2>5. 2 * (p * n) <= 2 * y + n /\ 2 * y <= 2 * (p * n) + n
        <3> HIDE DEF p
        <3>1. p * n \in Int
            BY <1>2
        <3>2. 2 * (p * n) <= 2 * y + n /\ 2 * y - n <= 2 * (p * n)
            BY <2>4, RoundedNear
        <3> DEFINE x == p * n
        <3> HIDE DEF x
        <3>3. 2 * y <= 2 * x + n
            BY <3>1, <3>2 DEF x
        <3> QED
            BY <3>2, <3>3 DEF x
    <2> HIDE DEF u, W, U, v, p
    <2>6. f[n] = n * v
        <3>1. f[n] * RateUnit = (n * v) * RateUnit
            <4>1. n * (RateUnit * v) = (n * v) * RateUnit /\ RateUnit * f[n] = f[n] * RateUnit
                BY <1>1, <1>2, <2>1
            <4> QED
                BY <2>1, <2>2, <4>1
        <3>2. n * v \in Int /\ f[n] \in Int /\ (n * v) * RateUnit \in Int
            BY <1>1, <1>2, <2>1
        <3>3. f[n] * RateUnit <= (n * v) * RateUnit /\ (n * v) * RateUnit <= f[n] * RateUnit
            BY <3>1, <3>2
        <3>4. f[n] <= n * v /\ n * v <= f[n]
            BY <1>1, <3>2, <3>3, Unscaled
        <3> QED
            BY <3>2, <3>4
    <2>7. F = n * U
        <3>1. W * (n * v) = n * (W * v)
            BY <1>2, <2>1
        <3> QED
            BY <2>3, <2>6, <3>1
    <2>8. /\ (2 * (p * n)) * U <= (2 * y + n) * U
          /\ (2 * y) * U <= (2 * (p * n) + n) * U
        <3>1. /\ 2 * (p * n) \in Int /\ 2 * y + n \in Int
              /\ 2 * y \in Int /\ 2 * (p * n) + n \in Int
            BY <1>2
        <3> QED
            BY <1>2, <2>5, <3>1, Scaled
    <2>9. /\ (2 * (p * n)) * U = 2 * (p * (n * U))
          /\ (2 * y + n) * U = 2 * (y * U) + n * U
          /\ (2 * y) * U = 2 * (y * U)
          /\ (2 * (p * n) + n) * U = 2 * (p * (n * U)) + n * U
        BY <1>2
    <2>10. /\ 2 * (p * F) <= 2 * (y * U) + F
           /\ 2 * (y * U) <= 2 * (p * F) + F
        BY <2>7, <2>8, <2>9
    <2> QED
        BY <2>10 DEF F, U, W, p, u
<1>5. CASE r # 0
    <2> DEFINE b == W * (Power(u, n) - Power(RateUnit, n))
    <2>1. p = Rounded(y * U * r, b)
        <3> DEFINE v == Num(r, c)
                   w == Power(u, n - 1)
        <3>1. v \in Nat /\ w \in Nat
            <4> HIDE DEF u
            <4> QED
                BY <1>1, PowerStep DEF Grown
        <3>2. p = Rounded(y * v * w * r, b) /\ U = v * w
            BY <1>5 DEF Pmt, Up
        <3> HIDE DEF v, w, U, p, b
        <3>3. y * v * w * r = y * (v * w) * r
            BY <3>1
        <3> QED
            BY <3>2, <3>3
    <2>2. Power(u, n) - Power(RateUnit, n) = r * f[n]
        <3>1. n \in 0..n
            OBVIOUS
        <3>2. r * f[n] + Power(RateUnit, n) = Power(u, n)
            BY <3>1, Geometric
        <3>3. r * f[n] \in Int
            BY <1>2
        <3>4. Power(RateUnit, n) \in Int
            <4> HIDE DEF u, W, U
            <4> QED
                BY <1>1, PowerStep
        <3> QED
            BY <3>2, <3>3, <3>4
    <2>3. b \in Nat /\ b >= 1
        <3> DEFINE d == Power(u, n) - Power(RateUnit, n)
        <3>1. d \in Nat /\ 1 <= d
            <4> HIDE DEF u
            <4>1. u > RateUnit
                BY <1>1, <1>5 DEF u
            <4>2. Power(u, n) > Power(RateUnit, n) /\ Power(u, n) \in Nat
                  /\ Power(RateUnit, n) \in Nat
                BY <1>1, <4>1, PowersDiffer, PowerIsPositive
            <4> QED
                BY <4>2
        <3> HIDE DEF d, W
        <3>2. 1 * 1 <= W * d /\ W * d \in Nat
            BY <1>2, <3>1, ProductsGrow
        <3> QED
            BY <3>2 DEF d
    <2>4. y * U * r \in Int
        BY <1>2
    <2>5. /\ 2 * (p * b) <= 2 * (y * U * r) + b
          /\ 2 * (y * U * r) <= 2 * (p * b) + b
        <3> DEFINE a == y * U * r
        <3> HIDE DEF b, a, p
        <3>1. p * b \in Int /\ a \in Int
            BY <1>2, <2>3, <2>4 DEF a
        <3>2. 2 * (p * b) <= 2 * a + b /\ 2 * a - b <= 2 * (p * b)
            BY <2>1, <2>3, <3>1, RoundedNear DEF a
        <3>3. 2 * a <= 2 * (p * b) + b
            BY <2>3, <3>1, <3>2
        <3> QED
            BY <3>2, <3>3 DEF a
    <2>6. b = F * r
        <3> HIDE DEF W, u
        <3>1. W * (r * f[n]) = (W * f[n]) * r
            BY <1>2
        <3> QED
            BY <2>2, <3>1
    <2> HIDE DEF u, W, U, F, p, b
    <2>7. /\ 2 * (p * (F * r)) = (2 * (p * F)) * r
          /\ 2 * (y * U * r) + F * r = (2 * (y * U) + F) * r
          /\ 2 * (y * U * r) = (2 * (y * U)) * r
          /\ 2 * (p * (F * r)) + F * r = (2 * (p * F) + F) * r
        BY <1>2, <1>3
    <2>8. /\ (2 * (p * F)) * r <= (2 * (y * U) + F) * r
          /\ (2 * (y * U)) * r <= (2 * (p * F) + F) * r
        BY <2>5, <2>6, <2>7
    <2>9. /\ 2 * (p * F) \in Int /\ 2 * (y * U) + F \in Int
          /\ 2 * (y * U) \in Int /\ 2 * (p * F) + F \in Int
        BY <1>2, <1>3
    <2>10. /\ 2 * (p * F) <= 2 * (y * U) + F
           /\ 2 * (y * U) <= 2 * (p * F) + F
        BY <1>5, <2>8, <2>9, Unscaled
    <2> QED
        BY <2>10 DEF F, U, W, p, u
<1> QED
    BY <1>4, <1>5

\* What is owed after k rows, without rounding and in units of half of
\* 1 / Base(r, c, k - 1): the loan grown for that long, less the instalments
\* and half a cent more for each, grown likewise.
LeastOwed(y, r, n, c, f, k) ==
    2 * (y * Up(r, c, k - 1)) - (2 * Pmt(y, r, n, c) + 1) * (f[k] * Den(r, c))

\* The same with half a cent less for each.
MostOwed(y, r, n, c, f, k) ==
    2 * (y * Up(r, c, k - 1)) - (2 * Pmt(y, r, n, c) - 1) * (f[k] * Den(r, c))

LEMMA OwedIsBounded ==
    ASSUME PriceAssumption, NEW y \in Int, NEW r \in Nat, NEW n \in Nat, n >= 1,
           NEW c \in Nat, Grown(r, c), NEW f, Grows(r, n, f),
           NEW owed, Leaves(owed, y, r, n, c)
    PROVE  /\ \A k \in 1..n : /\ LeastOwed(y, r, n, c, f, k) \in Int
                               /\ MostOwed(y, r, n, c, f, k) \in Int
           /\ \A k \in 1..(n - 1) :
                 /\ LeastOwed(y, r, n, c, f, k + 1)
                      = (RateUnit + r) * LeastOwed(y, r, n, c, f, k)
                          - (2 * Pmt(y, r, n, c) + 1)
                              * (Power(RateUnit, k) * Den(r, c))
                 /\ LeastOwed(y, r, n, c, f, k)
                      <= 2 * (owed[k] * Base(r, c, k - 1))
                 /\ 2 * (owed[k] * Base(r, c, k - 1))
                      <= MostOwed(y, r, n, c, f, k)
<1> DEFINE u == RateUnit + r
           W == Den(r, c)
           V(k) == Base(r, c, k - 1)
           U(k) == Up(r, c, k - 1)
           p == Pmt(y, r, n, c)
           q == 2 * p + 1
           q2 == 2 * p - 1
           L(k) == LeastOwed(y, r, n, c, f, k)
           M(k) == MostOwed(y, r, n, c, f, k)
<1>1. u \in Nat /\ RateUnit \in Nat /\ RateUnit >= 1 /\ u = RateUnit + r /\ u >= 1
    BY DEF PriceAssumption
<1>2. p \in Int /\ q \in Int /\ q2 \in Int
    <2>1. p \in Int
        BY PmtIsInt
    <2> HIDE DEF p
    <2> QED
        BY <2>1
<1>3. \A k \in 1..n : /\ L(k) = 2 * (y * U(k)) - q * (f[k] * W)
                      /\ M(k) = 2 * (y * U(k)) - q2 * (f[k] * W)
    BY DEF LeastOwed, MostOwed
<1> HIDE DEF u
<1>4. W \in Nat
    BY DEF Grown
<1>5. ASSUME NEW k \in 1..n
      PROVE  V(k) \in Nat /\ U(k) \in Nat /\ f[k] \in Nat /\ Power(RateUnit, k) \in Nat
    <2> DEFINE m == k - 1
    <2>1. m \in Nat /\ k \in Nat
        OBVIOUS
    <2> HIDE DEF m
    <2>2. Base(r, c, m) \in Nat /\ Up(r, c, m) \in Nat
        BY <2>1, UpIs
    <2>3. Power(RateUnit, k) \in Nat
        BY <1>1, <2>1, PowerStep
    <2> QED
        BY <2>2, <2>3 DEF Grows, m
<1>6. ASSUME NEW k \in 1..(n - 1)
      PROVE  /\ V(k + 1) = RateUnit * V(k) /\ U(k + 1) = u * U(k)
             /\ f[k + 1] = u * f[k] + Power(RateUnit, k)
    <2> DEFINE m == k - 1
    <2>1. m \in Nat /\ m + 1 = (k + 1) - 1
        OBVIOUS
    <2>2. f[k + 1] = u * f[k] + Power(RateUnit, k)
        <3>1. k + 1 \in 1..n /\ (k + 1) - 1 = k
            OBVIOUS
        <3> QED
            BY <3>1 DEF Grows, u
    <2> HIDE DEF m
    <2>3. Base(r, c, m + 1) = RateUnit * Base(r, c, m)
          /\ Up(r, c, m + 1) = u * Up(r, c, m)
        <3>1. m \in Nat
            BY <2>1
        <3>2. Base(r, c, m + 1) = RateUnit * Base(r, c, m)
            BY <3>1, UpIs
        <3>3. Up(r, c, m + 1) = (RateUnit + r) * Up(r, c, m)
            BY <3>1, UpIs
        <3> QED
            BY <1>1, <3>2, <3>3
    <2>4. V(k + 1) = Base(r, c, m + 1) /\ U(k + 1) = Up(r, c, m + 1)
        BY <2>1
    <2>5. V(k) = Base(r, c, m) /\ U(k) = Up(r, c, m)
        BY DEF m
    <2> HIDE DEF U, V
    <2> QED
        BY <2>2, <2>3, <2>4, <2>5
<1>7. V(1) = W /\ U(1) = Num(r, c) /\ f[1] = 1
    <2>1. 1 - 1 = 0 /\ Up(r, c, 0) = Num(r, c) /\ Base(r, c, 0) = Den(r, c)
        BY UpIs
    <2>2. f[1] = 1
        <3>1. 1 \in 1..n /\ 1 - 1 = 0
            OBVIOUS
        <3>2. f[1] = u * f[0] + Power(RateUnit, 0) /\ f[0] = 0
            BY <3>1 DEF Grows, u
        <3>3. Power(RateUnit, 0) = 1
            BY <1>1, PowerStep
        <3> QED
            BY <1>1, <3>2, <3>3
    <2> QED
        BY <2>1, <2>2
<1> HIDE DEF V, U, W, p, q, q2, L, M
<1>8. \A k \in 1..n : L(k) \in Int /\ M(k) \in Int
    <2> SUFFICES ASSUME NEW k \in 1..n PROVE L(k) \in Int /\ M(k) \in Int
        OBVIOUS
    <2> DEFINE a == U(k)
               g == f[k]
    <2>1. a \in Nat /\ g \in Nat
        BY <1>5
    <2>2. L(k) = 2 * (y * a) - q * (g * W) /\ M(k) = 2 * (y * a) - q2 * (g * W)
        BY <1>3
    <2> HIDE DEF a, g
    <2> QED
        BY <1>2, <1>4, <2>1, <2>2
<1>9. ASSUME NEW k \in 1..(n - 1)
      PROVE  /\ L(k + 1) = u * L(k) - q * (Power(RateUnit, k) * W)
             /\ M(k + 1) = u * M(k) - q2 * (Power(RateUnit, k) * W)
    <2>1. k \in 1..n /\ k + 1 \in 1..n
        OBVIOUS
    <2> DEFINE a == U(k)
               g == f[k]
               v == Power(RateUnit, k)
    <2>2. a \in Nat /\ g \in Nat /\ v \in Nat
        BY <1>5, <2>1
    <2>3. /\ L(k) = 2 * (y * a) - q * (g * W)
          /\ L(k + 1) = 2 * (y * (u * a)) - q * ((u * g + v) * W)
          /\ M(k) = 2 * (y * a) - q2 * (g * W)
          /\ M(k + 1) = 2 * (y * (u * a)) - q2 * ((u * g + v) * W)
        BY <1>3, <1>6, <2>1
    <2> HIDE DEF a, g, v
    <2>4. \A x \in Int : 2 * (y * (u * a)) - x * ((u * g + v) * W)
                            = u * (2 * (y * a) - x * (g * W)) - x * (v * W)
        BY <1>1, <1>4, <2>2
    <2> QED
        BY <1>2, <2>3, <2>4 DEF v
<1> DEFINE Near(k) == LET x == 2 * (owed[k] * V(k)) IN L(k) <= x /\ x <= M(k)
           Q == {k \in 0..(n - 1) : k >= 1 => Near(k)}
<1>10. \A k \in 1..(n - 1) :
          /\ owed[k - 1] \in Int /\ owed[k] \in Int
          /\ owed[k] = owed[k - 1] - (p - Juros(y, owed[k - 1], r, c, k))
    <2> SUFFICES ASSUME NEW k \in 1..(n - 1)
                 PROVE  /\ owed[k - 1] \in Int /\ owed[k] \in Int
                        /\ owed[k] = owed[k - 1] - (p - Juros(y, owed[k - 1], r, c, k))
        OBVIOUS
    <2>1. k \in 1..n /\ k < n /\ k - 1 \in 0..n /\ k \in 0..n
        OBVIOUS
    <2>2. owed[k - 1] \in Int /\ owed[k] \in Int
        BY <2>1 DEF Leaves
    <2>3. owed[k] = After(y, r, n, c, k, owed[k - 1])
        BY <2>1 DEF Leaves
    <2> QED
        BY <2>1, <2>2, <2>3 DEF After, Repayment, p
<1>11. ASSUME 1 \in 1..(n - 1) PROVE Near(1)
    <2> DEFINE J == Juros(y, owed[0], r, c, 1)
               w == Num(r, c)
    <2>1. owed[0] = y /\ owed[1] = y - (p - J)
        <3>1. 1 - 1 = 0
            OBVIOUS
        <3> QED
            BY <1>10, <1>11, <3>1 DEF Leaves
    <2>2. w \in Nat
        BY DEF Grown
    <2>3. J = Rounded(y * (w - W), W)
        BY DEF Juros, W
    <2>4. W >= 1
        BY DEF W, Grown
    <2> HIDE DEF w, J
    <2>5. y * (w - W) \in Int
        BY <1>4, <2>2
    <2>6. /\ J \in Int /\ 2 * (y * (w - W)) - W <= 2 * (J * W)
          /\ 2 * (J * W) <= 2 * (y * (w - W)) + W
        BY <1>4, <2>3, <2>4, <2>5, RoundedNear
    <2>7. L(1) = 2 * (y * w) - q * (1 * W) /\ M(1) = 2 * (y * w) - q2 * (1 * W)
        <3>1. 1 \in 1..n
            OBVIOUS
        <3> QED
            BY <1>3, <1>7, <3>1 DEF w
    <2>8. 2 * ((y - (p - J)) * W) = 2 * (y * W) - 2 * (p * W) + 2 * (J * W)
        BY <1>2, <1>4, <2>6
    <2>9. 2 * (y * (w - W)) = 2 * (y * w) - 2 * (y * W)
        BY <1>4, <2>2
    <2>10. q * (1 * W) = 2 * (p * W) + W /\ q2 * (1 * W) = 2 * (p * W) - W
        BY <1>2, <1>4 DEF q, q2
    <2>11. y * w \in Int /\ y * W \in Int /\ p * W \in Int /\ J * W \in Int
        BY <1>2, <1>4, <2>2, <2>6
    <2> DEFINE left == 2 * ((y - (p - J)) * W)
               yw == y * w
               yW == y * W
               pW == p * W
               JW == J * W
    <2>12. /\ left = 2 * yW - 2 * pW + 2 * JW
           /\ 2 * yw - 2 * yW - W <= 2 * JW
           /\ 2 * JW <= 2 * yw - 2 * yW + W
           /\ L(1) = 2 * yw - (2 * pW + W)
           /\ M(1) = 2 * yw - (2 * pW - W)
        BY <2>6, <2>7, <2>8, <2>9, <2>10
    <2> HIDE DEF yw, yW, pW, JW, left
    <2>13. yw \in Int /\ yW \in Int /\ pW \in Int /\ JW \in Int
        BY <2>11 DEF yw, yW, pW, JW
    <2>14. L(1) <= left /\ left <= M(1)
        BY <1>4, <2>12, <2>13
    <2> QED
        BY <1>7, <2>1, <2>14 DEF left
<1>12. ASSUME NEW k \in 1..(n - 1), k + 1 \in 1..(n - 1), Near(k)
       PROVE  Near(k + 1)
    <2> DEFINE J == Juros(y, owed[k], r, c, k + 1)
               o == owed[k]
               v == V(k)
    <2>1. o \in Int /\ owed[k + 1] = o - (p - J)
        <3>1. (k + 1) - 1 = k
            OBVIOUS
        <3> QED
            BY <1>10, <1>12, <3>1
    <2>2. J = Rounded(o * r, RateUnit)
        <3>1. k + 1 # 1
            OBVIOUS
        <3> QED
            BY <3>1 DEF Juros
    <2>3. v \in Nat /\ Power(RateUnit, k) \in Nat
        BY <1>5
    <2>4. k \in 1..n
        OBVIOUS
    <2>5. /\ L(k) \in Int /\ L(k) <= 2 * (o * v)
          /\ M(k) \in Int /\ 2 * (o * v) <= M(k)
        BY <1>8, <1>12, <2>4
    <2>6. V(k + 1) = RateUnit * v
        BY <1>6
    <2>7. RateUnit * v = Power(RateUnit, k) * W
        <3>1. RateUnit * v = Base(r, c, k)
            <4>1. k \in Nat /\ (k + 1) - 1 = k
                OBVIOUS
            <4> QED
                BY <2>6, <4>1 DEF V
        <3>2. W \in Nat /\ Power(RateUnit, k) \in Nat
            BY <1>4, <2>3
        <3>3. W * Power(RateUnit, k) = Power(RateUnit, k) * W
            BY <3>2
        <3> QED
            BY <3>1, <3>3 DEF W, Base
    <2>8. /\ L(k + 1) = u * L(k) - q * (RateUnit * v)
          /\ M(k + 1) = u * M(k) - q2 * (RateUnit * v)
        BY <1>9, <2>7
    <2> HIDE DEF J, o, v
    <2>9. o * r \in Int
        BY <2>1
    <2>10. /\ J \in Int /\ 2 * (o * r) - RateUnit <= 2 * (J * RateUnit)
           /\ 2 * (J * RateUnit) <= 2 * (o * r) + RateUnit
        BY <1>1, <2>2, <2>9, RoundedNear
    <2>11. /\ (2 * (o * r) - RateUnit) * v <= (2 * (J * RateUnit)) * v
           /\ (2 * (J * RateUnit)) * v <= (2 * (o * r) + RateUnit) * v
        <3>1. /\ 2 * (o * r) - RateUnit \in Int /\ 2 * (J * RateUnit) \in Int
              /\ 2 * (o * r) + RateUnit \in Int
            BY <1>1, <2>9, <2>10
        <3> QED
            BY <2>3, <2>10, <3>1, Scaled
    <2>12. L(k) * u <= (2 * (o * v)) * u /\ (2 * (o * v)) * u <= M(k) * u
        <3>1. 2 * (o * v) \in Int
            BY <2>1, <2>3
        <3> QED
            BY <1>1, <2>5, <3>1, Scaled
    <2>13. 2 * ((o - (p - J)) * (RateUnit * v))
             = 2 * (o * (RateUnit * v)) - 2 * (p * (RateUnit * v)) + (2 * (J * RateUnit)) * v
        BY <1>1, <1>2, <2>1, <2>3, <2>10
    <2>14. /\ (2 * (o * r) - RateUnit) * v = 2 * (o * (r * v)) - RateUnit * v
           /\ (2 * (o * r) + RateUnit) * v = 2 * (o * (r * v)) + RateUnit * v
        BY <1>1, <2>1, <2>3
    <2>15. (2 * (o * v)) * u = 2 * (o * (RateUnit * v)) + 2 * (o * (r * v))
        BY <1>1, <2>1, <2>3
    <2>16. /\ q * (RateUnit * v) = 2 * (p * (RateUnit * v)) + RateUnit * v
           /\ q2 * (RateUnit * v) = 2 * (p * (RateUnit * v)) - RateUnit * v
        BY <1>1, <1>2, <2>3 DEF q, q2
    <2>17. L(k) * u = u * L(k) /\ M(k) * u = u * M(k)
        BY <1>1, <2>5
    <2>18. /\ o * (RateUnit * v) \in Int /\ p * (RateUnit * v) \in Int
           /\ (2 * (J * RateUnit)) * v \in Int /\ o * (r * v) \in Int
           /\ RateUnit * v \in Int /\ u * L(k) \in Int /\ u * M(k) \in Int
        BY <1>1, <1>2, <2>1, <2>3, <2>5, <2>10
    <2> DEFINE left == 2 * ((o - (p - J)) * (RateUnit * v))
               oV == o * (RateUnit * v)
               pV == p * (RateUnit * v)
               JV == (2 * (J * RateUnit)) * v
               orv == o * (r * v)
               vv == RateUnit * v
               uL == u * L(k)
               uM == u * M(k)
               qV == q * (RateUnit * v)
               q2V == q2 * (RateUnit * v)
    <2>19. /\ left = 2 * oV - 2 * pV + JV
           /\ 2 * orv - vv <= JV /\ JV <= 2 * orv + vv
           /\ uL <= 2 * oV + 2 * orv /\ 2 * oV + 2 * orv <= uM
           /\ qV = 2 * pV + vv /\ q2V = 2 * pV - vv
        BY <2>11, <2>12, <2>13, <2>14, <2>15, <2>16, <2>17
    <2>20. L(k + 1) = uL - qV /\ M(k + 1) = uM - q2V
        BY <2>8
    <2> HIDE DEF left, oV, pV, JV, orv, vv, uL, uM, qV, q2V
    <2>21. /\ oV \in Int /\ pV \in Int /\ JV \in Int /\ orv \in Int
           /\ vv \in Int /\ uL \in Int /\ uM \in Int
        BY <2>18 DEF oV, pV, JV, orv, vv, uL, uM
    <2>22. L(k + 1) <= left /\ left <= M(k + 1)
        BY <2>19, <2>20, <2>21
    <2> QED
        BY <2>1, <2>6, <2>22 DEF left
<1>13. 0 \in Q /\ Q \in SUBSET (0..(n - 1)) /\ n - 1 \in Nat
    OBVIOUS
<1> HIDE DEF Near
<1>14. ASSUME NEW k \in 1..(n - 1), k - 1 \in Q PROVE k \in Q
    <2>1. CASE k = 1
        BY <1>11, <2>1
    <2>2. CASE k # 1
        <3> DEFINE m == k - 1
        <3>1. m \in 1..(n - 1) /\ m + 1 = k /\ Near(m)
            BY <1>14, <2>2
        <3> HIDE DEF m
        <3>2. Near(m + 1)
            BY <1>12, <3>1
        <3> QED
            BY <3>1, <3>2
    <2> QED
        BY <2>1, <2>2
<1> HIDE DEF Q
<1>15. Q = 0..(n - 1)
    BY <1>13, <1>14, UpTo
<1>16. ASSUME NEW k \in 1..(n - 1)
       PROVE  L(k) <= 2 * (owed[k] * V(k)) /\ 2 * (owed[k] * V(k)) <= M(k)
    <2>1. k \in Q /\ k >= 1
        BY <1>15
    <2> QED
        BY <2>1 DEF Q, Near
<1>17. \A k \in 1..(n - 1) :
          /\ L(k + 1) = u * L(k) - q * (Power(RateUnit, k) * W)
          /\ L(k) <= 2 * (owed[k] * V(k))
          /\ 2 * (owed[k] * V(k)) <= M(k)
    BY <1>9, <1>16
<1> QED
    BY <1>8, <1>17 DEF L, M, V, W, q, p, u

\* An instalment that is more than a cent a month never repays more than is
\* owed.
LEMMA NothingOverpaid ==
    ASSUME PriceAssumption, NEW y \in Int, NEW r \in Nat, NEW n \in Nat, n >= 2,
           NEW c \in Nat, Grown(r, c), Outweighs(Pmt(y, r, n, c), r, n)
    PROVE  \A k \in 1..n : Saldos(y, r, n, c)[k] >= 0
<1> DEFINE owed == Saldos(y, r, n, c)
           p == Pmt(y, r, n, c)
           q == 2 * p + 1
           u == RateUnit + r
           W == Den(r, c)
           R(k) == Power(RateUnit, k)
<1>1. u \in Nat /\ u >= 1 /\ RateUnit \in Nat /\ RateUnit >= 1
    BY DEF PriceAssumption
<1>2. p \in Int /\ q \in Int
    <2>1. p \in Int
        BY PmtIsInt
    <2> HIDE DEF p
    <2> QED
        BY <2>1
<1>3. Leaves(owed, y, r, n, c)
    BY SaldosAre
<1>4. PICK f : Grows(r, n, f) /\ Cents(r, n) = f[n]
    BY CentsExist
<1> DEFINE L(k) == LeastOwed(y, r, n, c, f, k)
<1>5. /\ \A k \in 1..n : L(k) \in Int
      /\ \A k \in 1..(n - 1) :
            /\ L(k + 1) = u * L(k) - q * (R(k) * W)
            /\ L(k) <= 2 * (owed[k] * Base(r, c, k - 1))
    <2> HIDE DEF owed
    <2> QED
        BY <1>3, <1>4, OwedIsBounded
<1>6. /\ W \in Nat /\ W >= 1
      /\ \A k \in Nat : R(k) \in Nat /\ R(k) >= 1
    BY <1>1, PowerIsPositive DEF Grown
<1>7. f[n] \in Nat /\ 2 * f[n] <= q * R(n - 1)
    <2> DEFINE v == R(n - 1)
    <2>1. v \in Nat
        <3>1. n - 1 \in Nat
            OBVIOUS
        <3> HIDE DEF R
        <3> QED
            BY <1>6, <3>1
    <2>2. f[n] \in Nat /\ f[n] < p * v
        BY <1>4 DEF Grows, Outweighs
    <2> HIDE DEF p, v
    <2>3. (2 * p + 1) * v = 2 * (p * v) + v /\ p * v \in Int
        BY <1>2, <2>1
    <2>4. 2 * f[n] <= (2 * p + 1) * v
        BY <2>1, <2>2, <2>3
    <2> QED
        BY <2>2, <2>4 DEF v
<1>8. 2 * (p * (W * f[n])) <= 2 * (y * Up(r, c, n - 1)) + W * f[n]
    BY <1>4, PmtRepays
<1>9. Up(r, c, n - 1) \in Nat
    <2>1. n - 1 \in Nat
        OBVIOUS
    <2> QED
        BY <2>1, UpIs
<1>10. L(n) = 2 * (y * Up(r, c, n - 1)) - q * (f[n] * W)
    BY DEF LeastOwed
<1>11. owed[n] = 0
    <2>1. n \in 1..n /\ n - 1 \in 0..n
        OBVIOUS
    <2>2. owed[n] = After(y, r, n, c, n, owed[n - 1]) /\ owed[n - 1] \in Int
        BY <1>3, <2>1 DEF Leaves
    <2> HIDE DEF owed
    <2> QED
        BY <2>2 DEF After, Repayment
<1> HIDE DEF L, R, W, u, owed, p
<1>12. q >= 0
    <2> SUFFICES ASSUME q <= -1 PROVE FALSE
        BY <1>2
    <2> DEFINE v == R(n - 1)
    <2>1. v \in Nat /\ v >= 1
        BY <1>6
    <2> HIDE DEF q, v
    <2>2. q * v <= (-1) * v
        BY <1>2, <2>1, Scaled
    <2>3. q * v \in Int /\ (-1) * v = -v
        BY <1>2, <2>1
    <2> QED
        BY <1>7, <2>1, <2>2, <2>3 DEF v
<1>13. L(n) >= -(2 * (f[n] * W))
    <2> DEFINE F == f[n] * W
               Y == y * Up(r, c, n - 1)
               pF == p * F
    <2>1. F \in Int /\ W * f[n] = F
        BY <1>6, <1>7
    <2>2. Y \in Int
        BY <1>9
    <2> HIDE DEF F, Y
    <2>3. pF \in Int
        BY <1>2, <2>1
    <2>4. 2 * pF <= 2 * Y + F
        BY <1>8, <2>1 DEF Y
    <2>5. L(n) = 2 * Y - q * F
        BY <1>10 DEF F, Y
    <2>6. q * F = 2 * pF + F
        BY <1>2, <2>1
    <2> HIDE DEF pF, q
    <2>7. L(n) >= -(2 * F)
        BY <2>1, <2>2, <2>3, <2>4, <2>5, <2>6
    <2> QED
        BY <2>7 DEF F
<1> HIDE DEF q
<1>14. L(n - 1) >= 0
    <2> DEFINE m == n - 1
               v == R(m)
               g == f[n]
               l == L(m)
    <2>1. m \in 1..(n - 1) /\ m \in 1..n /\ m + 1 = n /\ m \in Nat
        OBVIOUS
    <2>2. v \in Nat /\ g \in Nat /\ l \in Int /\ 2 * g <= q * v
        BY <1>5, <1>6, <1>7, <2>1
    <2>3. L(n) = u * l - q * (v * W)
        BY <1>5, <2>1
    <2>4. L(n) >= -(2 * (g * W))
        BY <1>13
    <2> HIDE DEF m, v, g, l
    <2>5. (2 * g) * W <= (q * v) * W
        <3>1. q * v \in Int /\ 2 * g \in Int
            BY <1>2, <2>2
        <3> QED
            BY <1>6, <2>2, <3>1, Scaled
    <2>6. (2 * g) * W = 2 * (g * W) /\ (q * v) * W = q * (v * W)
        BY <1>2, <1>6, <2>2
    <2> DEFINE ul == u * l
               gw == g * W
               qw == q * (v * W)
    <2>7. ul \in Int /\ gw \in Int /\ qw \in Int
        BY <1>1, <1>2, <1>6, <2>2
    <2>8. ul - qw >= -(2 * gw) /\ 2 * gw <= qw
        BY <2>3, <2>4, <2>5, <2>6
    <2> HIDE DEF ul, gw, qw
    <2>9. ul >= 0
        BY <2>7, <2>8
    <2>10. 0 * u <= l * u
        <3>1. u * l = l * u /\ 0 * u = 0
            BY <1>1, <2>2
        <3> QED
            BY <2>9, <3>1 DEF ul
    <2>11. 0 <= l
        BY <1>1, <2>2, <2>10, Unscaled
    <2> QED
        BY <2>2, <2>11 DEF l, m
<1>15. ASSUME NEW k \in 1..(n - 2), L(k + 1) >= 0 PROVE L(k) >= 0
    <2> DEFINE l == L(k)
               w == R(k) * W
    <2>1. k \in 1..(n - 1) /\ k \in 1..n /\ k + 1 \in 1..n /\ k \in Nat
        OBVIOUS
    <2>2. l \in Int /\ L(k + 1) \in Int /\ w \in Nat /\ L(k + 1) = u * l - q * w
        <3>1. R(k) \in Nat
            BY <1>6, <2>1
        <3> QED
            BY <1>5, <1>6, <2>1, <3>1
    <2> HIDE DEF l, w
    <2>3. 0 * w <= q * w /\ 0 * w = 0
        BY <1>2, <1>12, <2>2, Scaled
    <2>4. q * w \in Int /\ u * l \in Int /\ l * u = u * l /\ 0 * u = 0
        BY <1>1, <1>2, <2>2
    <2>5. 0 * u <= l * u
        BY <1>15, <2>2, <2>3, <2>4
    <2>6. 0 <= l
        BY <1>1, <2>2, <2>5, Unscaled
    <2> QED
        BY <2>2, <2>6 DEF l
<1> DEFINE Q == {k \in 0..(n - 2) : L(n - 1 - k) >= 0}
<1>16. n - 2 \in Nat /\ 0 \in Q /\ Q \in SUBSET (0..(n - 2))
    BY <1>14
<1>17. ASSUME NEW k \in 1..(n - 2), k - 1 \in Q PROVE k \in Q
    <2> DEFINE m == n - 1 - k
    <2>1. m \in 1..(n - 2) /\ n - 1 - (k - 1) = m + 1
        OBVIOUS
    <2>2. L(m + 1) >= 0
        BY <1>17, <2>1
    <2> HIDE DEF m
    <2>3. L(m) >= 0
        BY <1>15, <2>1, <2>2
    <2> QED
        BY <2>3 DEF m
<1> HIDE DEF Q
<1>18. Q = 0..(n - 2)
    BY <1>16, <1>17, UpTo
<1>19. ASSUME NEW k \in 1..(n - 1) PROVE owed[k] >= 0
    <2> DEFINE m == n - 1 - k
               v == Base(r, c, k - 1)
               o == owed[k]
    <2>1. m \in 0..(n - 2) /\ n - 1 - m = k /\ k - 1 \in Nat /\ k \in 0..n
          /\ k \in 1..n
        OBVIOUS
    <2>2. L(k) >= 0
        BY <1>18, <2>1 DEF Q
    <2>3. v \in Nat /\ v >= 1 /\ o \in Int
        BY <1>3, <2>1, UpIs DEF Leaves
    <2>4. L(k) \in Int /\ L(k) <= 2 * (o * v)
        BY <1>5, <2>1
    <2> HIDE DEF v, o
    <2>5. o * v \in Int /\ 0 * v = 0
        BY <2>3
    <2>6. 0 * v <= o * v
        BY <2>2, <2>4, <2>5
    <2>7. 0 <= o
        BY <2>3, <2>6, Unscaled
    <2> QED
        BY <2>3, <2>7 DEF o
<1>20. \A k \in 1..n : owed[k] >= 0
    <2>1. \A k \in 1..n : k = n \/ k \in 1..(n - 1)
        OBVIOUS
    <2> QED
        BY <1>11, <1>19, <2>1
<1> QED
    BY <1>20 DEF owed

\* What a schedule shows of its instalment and of what it leaves.
LEMMA ScheduleColumns ==
    ASSUME NEW y, NEW r, NEW n \in Nat, NEW c, NEW start, NEW k \in 1..n
    PROVE  LET row == Schedule(y, r, n, c, start)[k] IN
           /\ row.anterior = Saldos(y, r, n, c)[k - 1]
           /\ row.saldo = Saldos(y, r, n, c)[k]
           /\ k < n => row.parcela = Pmt(y, r, n, c)
BY DEF Schedule

\* PmtRepays, in Cents.
LEMMA PmtIsNear ==
    ASSUME PriceAssumption, NEW y \in Int, NEW r \in Nat, NEW n \in Nat, n >= 1,
           NEW c \in Nat, Grown(r, c)
    PROVE  LET F == Den(r, c) * Cents(r, n)
               a == 2 * (Pmt(y, r, n, c) * F)
               b == 2 * (y * Up(r, c, n - 1))
           IN a <= b + F /\ b <= a + F
<1>1. PICK f : Grows(r, n, f) /\ Cents(r, n) = f[n]
    BY CentsExist
<1> QED
    BY <1>1, PmtRepays

\* A cent that is owed grows no less than one that is kept.
LEMMA CentsGrow ==
    ASSUME PriceAssumption, NEW r \in Nat, NEW j \in Nat, NEW k \in Nat
    PROVE  Cents(r, j) * Power(RateUnit, k) <= Cents(r, j + k)
<1> DEFINE u == RateUnit + r
           a == Cents(r, j)
           b == Cents(r, k)
           v == Power(RateUnit, k)
           w == Power(u, k)
           x == Power(RateUnit, j)
<1>1. u \in Nat /\ u >= RateUnit /\ RateUnit \in Nat /\ RateUnit >= 1
    BY DEF PriceAssumption
<1>2. Cents(r, j + k) = w * a + x * b
    BY CentsSplit
<1>3. a \in Nat /\ b \in Nat
    BY CentsStep
<1> HIDE DEF u, a, b
<1>4. v \in Nat /\ w \in Nat /\ x \in Nat
    BY <1>1, PowerStep
<1>5. v <= w
    <2>1. CASE k = 0
        BY <1>1, <2>1, PowerStep
    <2>2. CASE k # 0 /\ u > RateUnit
        <3>1. k >= 1
            BY <2>2
        <3>2. w > v
            BY <1>1, <2>2, <3>1, PowersDiffer
        <3> QED
            BY <1>4, <3>2
    <2>3. CASE u = RateUnit
        BY <1>4, <2>3
    <2> QED
        BY <1>1, <2>1, <2>2, <2>3
<1> HIDE DEF v, w, x
<1>6. v * a <= w * a
    BY <1>3, <1>4, <1>5, Scaled
<1>7. x * b \in Nat /\ v * a \in Nat /\ w * a \in Nat /\ a * v = v * a
    BY <1>3, <1>4
<1>8. a * v <= w * a + x * b
    BY <1>6, <1>7
<1> QED
    BY <1>2, <1>8 DEF a, v

\* What is more than a cent a month by the n-th month was so all along.
LEMMA OutweighsSooner ==
    ASSUME PriceAssumption, NEW x \in Int, NEW r \in Nat, NEW n \in Nat,
           NEW j \in 1..n, Outweighs(x, r, n)
    PROVE  Outweighs(x, r, j) /\ x >= 1
<1> DEFINE k == n - j
           i == j - 1
           a == Cents(r, j)
           b == Cents(r, n)
           v == Power(RateUnit, i)
           w == Power(RateUnit, k)
<1>1. k \in Nat /\ i \in Nat /\ j \in Nat /\ j + k = n /\ i + k = n - 1
    OBVIOUS
<1>2. RateUnit \in Nat /\ RateUnit >= 1
    BY DEF PriceAssumption
<1> HIDE DEF k, i
<1>3. a * w <= b /\ a \in Nat /\ b \in Nat
    BY <1>1, CentsGrow, CentsStep
<1>4. v \in Nat /\ w \in Nat /\ v >= 1 /\ w >= 1 /\ Power(RateUnit, n - 1) = v * w
    <2>1. v \in Nat /\ w \in Nat /\ v >= 1 /\ w >= 1
        BY <1>1, <1>2, PowerIsPositive
    <2>2. Power(RateUnit, i + k) = v * w
        BY <1>1, <1>2, PowerAdds
    <2> HIDE DEF v, w
    <2> QED
        BY <1>1, <2>1, <2>2
<1>5. b < x * (v * w)
    BY <1>4 DEF Outweighs
<1> HIDE DEF a, b, v, w
<1>6. x * (v * w) = (x * v) * w /\ x * v \in Int /\ (x * v) * w \in Int /\ a * w \in Int
    BY <1>3, <1>4
<1>7. a < x * v
    <2> SUFFICES ASSUME x * v <= a PROVE FALSE
        BY <1>3, <1>6
    <2>1. (x * v) * w <= a * w
        BY <1>3, <1>4, <1>6, Scaled
    <2> QED
        BY <1>3, <1>5, <1>6, <2>1
<1>8. x >= 1
    <2> SUFFICES ASSUME x <= 0 PROVE FALSE
        OBVIOUS
    <2>1. x * v <= 0 * v /\ 0 * v = 0
        BY <1>4, Scaled
    <2> QED
        BY <1>3, <1>6, <1>7, <2>1
<1> QED
    BY <1>7, <1>8 DEF Outweighs, a, v, i

\* What is no more than a cent a month by the j-th month is none later.
LEMMA NoneOutweighs ==
    ASSUME PriceAssumption, NEW x \in Int, NEW y \in Int, y <= x, NEW r \in Nat,
           NEW n \in Nat, NEW j \in 1..n, ~Outweighs(x, r, j)
    PROVE  ~Outweighs(y, r, n)
<1> SUFFICES ASSUME Outweighs(y, r, n) PROVE FALSE
    OBVIOUS
<1>1. Outweighs(y, r, j)
    BY OutweighsSooner
<1> DEFINE a == Cents(r, j)
           i == j - 1
           v == Power(RateUnit, i)
<1>2. i \in Nat /\ j \in Nat /\ RateUnit \in Nat
    BY DEF PriceAssumption
<1> HIDE DEF i
<1>3. a \in Nat /\ v \in Nat
    BY <1>2, CentsStep, PowerStep
<1>4. a < y * v /\ ~(a < x * v)
    BY <1>1 DEF Outweighs, i
<1> HIDE DEF a, v
<1>5. y * v <= x * v /\ y * v \in Int /\ x * v \in Int
    BY <1>3, Scaled
<1> QED
    BY <1>3, <1>4, <1>5

\* What is owed after j months, against the months that remain: the
\* instalments, and the cents of the months until then.
LEMMA Remaining ==
    ASSUME PriceAssumption, NEW y \in Int, NEW r \in Nat, NEW n \in Nat,
           NEW c \in Nat, Grown(r, c), NEW j \in 1..(n - 1)
    PROVE  LET o == Saldos(y, r, n, c)[j]
               g == Power(RateUnit + r, n - j)
               v == Power(RateUnit, j - 1)
               q == 2 * Pmt(y, r, n, c) + 1
           IN 2 * ((o * g) * v)
                <= 2 * (g * Cents(r, j)) + q * ((RateUnit * v) * Cents(r, n - j))
<1> DEFINE u == RateUnit + r
           m == n - j
           i == j - 1
           owed == Saldos(y, r, n, c)
           o == owed[j]
           p == Pmt(y, r, n, c)
           q == 2 * p + 1
           W == Den(r, c)
           g == Power(u, m)
           v == Power(RateUnit, i)
           a == Cents(r, j)
           b == Cents(r, m)
           Y == y * Up(r, c, j - 1)
<1>1. /\ u \in Nat /\ RateUnit \in Nat /\ RateUnit >= 1
      /\ j \in Nat /\ m \in Nat /\ i \in Nat /\ n >= 1 /\ n - 1 \in Nat
      /\ j + m = n /\ i + 1 = j /\ i = j - 1 /\ i + m = n - 1
    BY DEF PriceAssumption
<1>2. Leaves(owed, y, r, n, c)
    BY <1>1, SaldosAre
<1>3. PICK f : Grows(r, n, f) /\ Cents(r, n) = f[n]
    BY CentsExist
<1>4. f[j] = a
    <2>1. j \in 0..n
        OBVIOUS
    <2> QED
        BY <1>3, <2>1, CentsAre
<1>5. 2 * (o * Base(r, c, j - 1)) <= 2 * Y - (2 * p - 1) * (a * W)
    <2> HIDE DEF owed, W, p, u
    <2>1. 2 * (owed[j] * Base(r, c, j - 1)) <= MostOwed(y, r, n, c, f, j)
        BY <1>1, <1>2, <1>3, OwedIsBounded
    <2> QED
        BY <1>4, <2>1 DEF MostOwed, W, p, u
<1>6. 2 * (y * Up(r, c, n - 1)) <= 2 * (p * (W * Cents(r, n))) + W * Cents(r, n)
    BY <1>1, PmtIsNear
<1>7. o \in Int /\ p \in Int
    <2>1. j \in 0..n /\ owed[j] \in Int
        BY <1>1, <1>2 DEF Leaves
    <2>2. p \in Int
        BY <1>1, PmtIsInt
    <2> QED
        BY <2>1, <2>2
<1>8. /\ a \in Nat /\ b \in Nat
      /\ Cents(r, n) = g * a + Power(RateUnit, j) * b
    <2>1. Cents(r, j + m) = g * a + Power(RateUnit, j) * b
        BY <1>1, CentsSplit
    <2>2. a \in Nat /\ b \in Nat
        BY <1>1, CentsStep
    <2> QED
        BY <1>1, <2>1, <2>2
<1> HIDE DEF u, m, i, owed, o, p, a, b
<1>9. /\ W \in Nat /\ W >= 1 /\ g \in Nat /\ v \in Nat
      /\ Power(RateUnit, j) = RateUnit * v
      /\ Base(r, c, j - 1) = W * v
      /\ Up(r, c, j - 1) \in Nat
      /\ Up(r, c, n - 1) = Up(r, c, j - 1) * g
    <2>1. W \in Nat /\ W >= 1
        BY DEF Grown
    <2>2. g \in Nat /\ v \in Nat /\ Power(RateUnit, i + 1) = RateUnit * v
        BY <1>1, PowerStep
    <2>3. Base(r, c, i) = W * v
        BY DEF Base
    <2>4. Up(r, c, i) \in Nat
        BY <1>1, UpIs
    <2>5. Up(r, c, i + m) = Up(r, c, i) * g
        BY <1>1, UpAdds DEF u
    <2> QED
        BY <1>1, <2>1, <2>2, <2>3, <2>4, <2>5
<1>10. Y \in Int
    BY <1>9
<1>11. y * Up(r, c, n - 1) = Y * g
    <2> DEFINE z == Up(r, c, j - 1)
    <2>1. z \in Nat /\ g \in Nat
        BY <1>9
    <2> HIDE DEF z, g
    <2>2. y * (z * g) = (y * z) * g
        BY <2>1
    <2> QED
        BY <1>9, <2>2 DEF z
<1> HIDE DEF W, g, v, Y
<1>12. (2 * (o * (W * v))) * g <= (2 * Y - (2 * p - 1) * (a * W)) * g
    <2>1. 2 * (o * (W * v)) \in Int /\ 2 * Y - (2 * p - 1) * (a * W) \in Int
        BY <1>7, <1>8, <1>9, <1>10
    <2>2. 2 * (o * (W * v)) <= 2 * Y - (2 * p - 1) * (a * W)
        BY <1>5, <1>9
    <2> QED
        BY <1>9, <2>1, <2>2, Scaled
<1> DEFINE ga == g * a
           rb == (RateUnit * v) * b
           ov == (o * g) * v
           Yg == Y * g
<1>13. ga \in Int /\ rb \in Int /\ ov \in Int /\ Yg \in Int
    BY <1>1, <1>7, <1>8, <1>9, <1>10
<1>14. 2 * Yg <= 2 * (p * (W * (ga + rb))) + W * (ga + rb)
    BY <1>6, <1>8, <1>9, <1>11
<1>15. /\ (2 * (o * (W * v))) * g = 2 * (ov * W)
       /\ (2 * Y - (2 * p - 1) * (a * W)) * g = 2 * Yg - (2 * p - 1) * (ga * W)
    BY <1>7, <1>8, <1>9, <1>10
<1> HIDE DEF ga, rb, ov, Yg
<1>16. (2 * ov) * W <= (2 * ga + q * rb) * W
    <2>1. 2 * (ov * W) <= 2 * Yg - (2 * p - 1) * (ga * W)
        BY <1>12, <1>15
    <2>2. /\ 2 * (p * (W * (ga + rb))) = 2 * (p * (W * ga)) + 2 * (p * (W * rb))
          /\ W * (ga + rb) = W * ga + W * rb
          /\ (2 * p - 1) * (ga * W) = 2 * (p * (W * ga)) - W * ga
          /\ (2 * ga + (2 * p + 1) * rb) * W = 2 * (W * ga) + 2 * (p * (W * rb)) + W * rb
          /\ (2 * ov) * W = 2 * (ov * W)
        BY <1>7, <1>9, <1>13
    <2> DEFINE x1 == p * (W * ga)
               x2 == p * (W * rb)
               x3 == W * ga
               x4 == W * rb
               x5 == ov * W
               x6 == (2 * p - 1) * (ga * W)
               x7 == (2 * ga + q * rb) * W
    <2>3. x1 \in Int /\ x2 \in Int /\ x3 \in Int /\ x4 \in Int /\ x5 \in Int
        BY <1>7, <1>9, <1>13
    <2>4. /\ 2 * x5 <= 2 * Yg - x6
          /\ 2 * Yg <= 2 * x1 + 2 * x2 + x3 + x4
          /\ x6 = 2 * x1 - x3
          /\ x7 = 2 * x3 + 2 * x2 + x4
          /\ (2 * ov) * W = 2 * x5
        <3>1. /\ 2 * x5 <= 2 * Yg - x6 /\ (2 * ov) * W = 2 * x5
              /\ x6 = 2 * x1 - x3
            BY <2>1, <2>2
        <3>2. x7 = 2 * x3 + 2 * x2 + x4
            BY <2>2
        <3>3. 2 * Yg <= (2 * x1 + 2 * x2) + (x3 + x4)
            <4>1. 2 * (p * (W * (ga + rb))) = 2 * x1 + 2 * x2 /\ W * (ga + rb) = x3 + x4
                BY <2>2
            <4> HIDE DEF x1, x2, x3, x4
            <4> QED
                BY <1>14, <4>1
        <3> HIDE DEF x1, x2, x3, x4, x5, x6, x7
        <3> QED
            BY <1>13, <2>3, <3>1, <3>2, <3>3
    <2> HIDE DEF x1, x2, x3, x4, x5, x6, x7
    <2>5. (2 * ov) * W <= x7
        BY <1>13, <2>3, <2>4
    <2> QED
        BY <2>5 DEF x7
<1>17. 2 * ov \in Int /\ 2 * ga + q * rb \in Int
    BY <1>7, <1>13
<1>18. 2 * ov <= 2 * ga + q * rb
    <2> HIDE DEF q
    <2> QED
        BY <1>9, <1>16, <1>17, Unscaled
<1> QED
    BY <1>18 DEF ov, ga, rb, o, owed, g, v, a, b, p, u, m, i

\* A payment that is more than a cent a month has grown to until then leaves no
\* higher instalment for the months that remain.
LEMMA InstalmentFalls ==
    ASSUME PriceAssumption, GrowthAssumption,
           NEW y \in Int, NEW r \in Taxas, r \in Nat, NEW n \in Nat, n >= 1,
           NEW c \in Nat, Grown(r, c), NEW j \in 0..(n - 1),
           NEW x \in Int, x >= 1, j = 0 => AMonth(r, c),
           j >= 1 => Outweighs(x, r, j), Saldos(y, r, n, c)[j] - x > 0
    PROVE  Pmt(Saldos(y, r, n, c)[j] - x, r, n - j, Mes) <= Pmt(y, r, n, c)
<1> DEFINE u == RateUnit + r
           m == n - j
           owed == Saldos(y, r, n, c)
           o == owed[j]
           p == Pmt(y, r, n, c)
           q == 2 * p + 1
           z == Pmt(o - x, r, m, Mes)
           g == Power(u, m)
           b == Cents(r, m)
<1>1. /\ u \in Nat /\ u >= 1 /\ u >= RateUnit /\ RateUnit \in Nat /\ RateUnit >= 1
      /\ j \in Nat /\ m \in Nat /\ m >= 1 /\ m - 1 \in Nat /\ m - 1 + 1 = m
    BY DEF PriceAssumption
<1>2. Leaves(owed, y, r, n, c)
    BY SaldosAre
<1>3. o \in Int
    <2>1. j \in 0..n
        OBVIOUS
    <2> QED
        BY <1>2, <2>1 DEF Leaves
<1>4. p \in Int /\ b \in Nat
    BY <1>1, PmtIsInt, CentsStep
<1>5. z \in Int /\ 2 * (z * (RateUnit * b)) <= 2 * ((o - x) * g) + RateUnit * b
    <2> DEFINE s == o - x
    <2>1. s \in Int
        BY <1>3
    <2> DEFINE D == Den(r, Mes)
               N == Num(r, Mes)
               G == Power(u, m - 1)
               Z == Pmt(s, r, m, Mes)
    <2> HIDE DEF s, b
    <2>2. Mes \in Nat /\ Grown(r, Mes) /\ RateUnit * N = u * D
        BY GrowthIs
    <2>3. Z \in Int /\ 2 * (Z * (D * b)) <= 2 * (s * Up(r, Mes, m - 1)) + D * b
        <3> HIDE DEF m
        <3> QED
            BY <1>1, <2>1, <2>2, PmtIsInt, PmtIsNear DEF b
    <2> HIDE DEF Z, m
    <2>4. G \in Nat /\ g = u * G
        <3> DEFINE k == m - 1
        <3>1. k \in Nat /\ k + 1 = m
            BY <1>1
        <3> HIDE DEF k
        <3>2. Power(u, k) \in Nat /\ Power(u, k + 1) = u * Power(u, k)
            BY <1>1, <3>1, PowerStep
        <3> QED
            BY <3>1, <3>2 DEF k
    <2>5. D \in Nat /\ D >= 1 /\ N \in Nat /\ Up(r, Mes, m - 1) = N * G
        BY <2>2 DEF Grown, Up
    <2> HIDE DEF D, N, G, g
    <2>6. (2 * (Z * (D * b))) * RateUnit <= (2 * (s * (N * G)) + D * b) * RateUnit
        <3>1. 2 * (Z * (D * b)) \in Int /\ 2 * (s * (N * G)) + D * b \in Int
            BY <1>4, <2>1, <2>3, <2>4, <2>5
        <3> QED
            BY <1>1, <2>3, <2>5, <3>1, Scaled
    <2>7. (2 * (Z * (D * b))) * RateUnit = (2 * (Z * (RateUnit * b))) * D
        BY <1>1, <1>4, <2>3, <2>5
    <2>8. (2 * (s * (N * G)) + D * b) * RateUnit = (2 * (s * g) + RateUnit * b) * D
        <3>1. (2 * (s * (N * G)) + D * b) * RateUnit
                = 2 * (s * ((RateUnit * N) * G)) + (RateUnit * b) * D
            BY <1>1, <1>4, <2>1, <2>4, <2>5
        <3>2. (2 * (s * (u * G)) + RateUnit * b) * D
                = 2 * (s * ((u * D) * G)) + (RateUnit * b) * D
            BY <1>1, <1>4, <2>1, <2>4, <2>5
        <3> QED
            BY <2>2, <2>4, <3>1, <3>2
    <2>9. 2 * (Z * (RateUnit * b)) <= 2 * (s * g) + RateUnit * b
        <3>1. 2 * (Z * (RateUnit * b)) \in Int /\ 2 * (s * g) + RateUnit * b \in Int
            BY <1>1, <1>4, <2>1, <2>3, <2>4
        <3> QED
            BY <2>5, <2>6, <2>7, <2>8, <3>1, Unscaled
    <2> QED
        BY <2>3, <2>9 DEF s, Z
<1>6. o - x > 0
    OBVIOUS
<1>13. RateUnit * Num(r, c) \in Nat /\ (j = 0 => u * Den(r, c) <= RateUnit * Num(r, c))
    BY <1>1 DEF AMonth, Grown
<1> HIDE DEF u, owed, o, z, p, b
<1>7. g \in Nat /\ g >= 1
    BY <1>1, PowerIsPositive
<1> HIDE DEF g
\* Were the new instalment higher, the rest would not repay what is owed.
<1> SUFFICES ASSUME z >= p + 1 PROVE FALSE
    BY <1>4, <1>5 DEF z, p, o, owed, m
<1>8. q * (RateUnit * b) <= 2 * ((o - x) * g)
    <2> DEFINE t == RateUnit * b
               d == (o - x) * g
    <2>1. t \in Nat /\ d \in Int
        BY <1>1, <1>3, <1>4, <1>7
    <2> HIDE DEF t, d
    <2>2. p + 1 \in Int /\ (p + 1) * t <= z * t
        BY <1>4, <1>5, <2>1, Scaled
    <2>3. (p + 1) * t = p * t + t /\ (2 * p + 1) * t = 2 * (p * t) + t
          /\ p * t \in Int /\ z * t \in Int
        BY <1>4, <1>5, <2>1
    <2>4. 2 * (z * t) <= 2 * d + t
        BY <1>5 DEF t, d
    <2>5. (2 * p + 1) * t <= 2 * d
        BY <2>1, <2>2, <2>3, <2>4
    <2> QED
        BY <2>5 DEF t, d
<1>9. q \in Int
    BY <1>4
<1> HIDE DEF q
<1>10. CASE j >= 1
    <2> DEFINE i == j - 1
               v == Power(RateUnit, i)
               a == Cents(r, j)
    <2>1. i \in Nat /\ j \in 1..(n - 1)
        BY <1>10
    <2>2. 2 * ((o * g) * v) <= 2 * (g * a) + q * ((RateUnit * v) * b)
        <3> HIDE DEF a, v
        <3> QED
            BY <2>1, Remaining DEF o, owed, g, u, m, q, p, a, v, b
    <2>3. a < x * v
        BY <1>10 DEF Outweighs
    <2> HIDE DEF i
    <2>4. v \in Nat /\ a \in Nat
        BY <1>1, <2>1, PowerStep, CentsStep
    <2> HIDE DEF v, a
    <2>5. (q * (RateUnit * b)) * v <= (2 * ((o - x) * g)) * v
        <3>1. q * (RateUnit * b) \in Int /\ 2 * ((o - x) * g) \in Int
            BY <1>1, <1>3, <1>4, <1>7, <1>9
        <3> QED
            BY <1>8, <2>4, <3>1, Scaled
    <2>6. /\ (q * (RateUnit * b)) * v = q * ((RateUnit * v) * b)
          /\ (2 * ((o - x) * g)) * v = 2 * ((o * g) * v) - 2 * ((x * v) * g)
        BY <1>1, <1>3, <1>4, <1>7, <1>9, <2>4
    <2> DEFINE s1 == q * ((RateUnit * v) * b)
               s2 == (o * g) * v
               s3 == (x * v) * g
               s4 == g * a
    <2>7. s1 \in Int /\ s2 \in Int /\ s3 \in Int /\ s4 \in Int
        BY <1>1, <1>3, <1>4, <1>7, <1>9, <2>4
    <2>8. 2 * s2 <= 2 * s4 + s1 /\ s1 <= 2 * s2 - 2 * s3
        BY <2>2, <2>5, <2>6
    <2>9. a * g = s4 /\ x * v \in Int
        BY <1>7, <2>4
    <2> HIDE DEF s1, s2, s4
    <2>10. s3 <= s4
        <3> HIDE DEF s3
        <3> QED
            BY <2>7, <2>8
    <2>11. (x * v) * g <= a * g
        BY <2>9, <2>10
    <2>12. x * v <= a
        BY <1>7, <2>4, <2>9, <2>11, Unscaled
    <2> QED
        BY <2>3, <2>4, <2>9, <2>12
<1>11. CASE j = 0
    <2> DEFINE w == Den(r, c)
               N == Num(r, c)
               G == Power(u, m - 1)
               h == (RateUnit * N) * G
    <2>1. m = n
        BY <1>11
    <2>2. o = y
        BY <1>2, <1>11 DEF Leaves, o
    <2>3. 2 * (y * (N * G)) <= 2 * (p * (w * b)) + w * b
        <3>1. 2 * (y * Up(r, c, n - 1)) <= 2 * (p * (w * Cents(r, n))) + w * Cents(r, n)
            BY PmtIsNear DEF p
        <3>2. Up(r, c, n - 1) = N * G /\ Cents(r, n) = b
            BY <2>1 DEF Up, u, b
        <3> QED
            BY <3>1, <3>2
    <2> HIDE DEF m
    <2>4. G \in Nat /\ g = u * G
        <3> DEFINE k == m - 1
        <3>1. k \in Nat /\ k + 1 = m
            BY <1>1
        <3> HIDE DEF k
        <3>2. Power(u, k) \in Nat /\ Power(u, k + 1) = u * Power(u, k)
            BY <1>1, <3>1, PowerStep
        <3> QED
            BY <3>1, <3>2 DEF k, g
    <2>5. w \in Nat /\ w >= 1 /\ N \in Nat /\ RateUnit * N \in Nat
          /\ u * w <= RateUnit * N
        BY <1>11, <1>13 DEF Grown
    <2> HIDE DEF w, N, G
    <2>6. w * g <= h /\ h \in Nat
        <3>1. (u * w) * G <= (RateUnit * N) * G
            <4>1. u * w \in Int
                BY <1>1, <2>5
            <4> QED
                BY <2>4, <2>5, <4>1, Scaled
        <3>2. w * (u * G) = (u * w) * G
            BY <1>1, <2>4, <2>5
        <3>3. h \in Nat
            BY <2>4, <2>5
        <3> QED
            BY <2>4, <3>1, <3>2, <3>3
    <2>7. 2 * (y * h) <= 2 * (p * ((RateUnit * w) * b)) + (RateUnit * w) * b
        <3>1. (2 * (y * (N * G))) * RateUnit <= (2 * (p * (w * b)) + w * b) * RateUnit
            <4>1. 2 * (y * (N * G)) \in Int /\ 2 * (p * (w * b)) + w * b \in Int
                BY <1>4, <2>4, <2>5
            <4> QED
                BY <1>1, <2>3, <4>1, Scaled
        <3>2. /\ (2 * (y * (N * G))) * RateUnit = 2 * (y * ((RateUnit * N) * G))
              /\ (2 * (p * (w * b)) + w * b) * RateUnit
                   = 2 * (p * ((RateUnit * w) * b)) + (RateUnit * w) * b
            BY <1>1, <1>4, <2>4, <2>5
        <3> QED
            BY <3>1, <3>2
    <2> HIDE DEF h
    <2>8. (q * (RateUnit * b)) * w <= (2 * ((y - x) * g)) * w
        <3>1. q * (RateUnit * b) \in Int /\ 2 * ((y - x) * g) \in Int
            BY <1>1, <1>4, <1>7, <1>9
        <3> QED
            BY <1>8, <2>2, <2>5, <3>1, Scaled
    <2>9. y - x >= 1 /\ y >= 0
        BY <1>6, <2>2
    <2>10. (w * g) * y <= h * y
        <3>1. y \in Nat /\ w * g \in Int
            BY <1>7, <2>5, <2>9
        <3> QED
            BY <2>6, <3>1, Scaled
    <2>11. 1 <= (x * g) * w
        <3>1. x \in Nat
            OBVIOUS
        <3>2. 1 * 1 <= x * g /\ x * g \in Nat
            BY <1>7, <3>1, ProductsGrow
        <3>3. 1 * 1 <= (x * g) * w
            BY <2>5, <3>2, ProductsGrow
        <3> QED
            BY <3>3
    <2>12. /\ (2 * ((y - x) * g)) * w = 2 * (w * (y * g)) - 2 * ((x * g) * w)
           /\ (w * g) * y = w * (y * g) /\ h * y = y * h
        BY <1>7, <2>5, <2>6
    <2>13. (q * (RateUnit * b)) * w
             = 2 * (p * ((RateUnit * w) * b)) + (RateUnit * w) * b
        BY <1>1, <1>4, <2>5 DEF q
    <2> DEFINE s1 == w * (y * g)
               s2 == y * h
               s3 == (x * g) * w
               s4 == (q * (RateUnit * b)) * w
    <2>14. s1 \in Int /\ s2 \in Int /\ s3 \in Int /\ s4 \in Int
        BY <1>1, <1>4, <1>7, <1>9, <2>5, <2>6
    <2>15. s4 <= 2 * s1 - 2 * s3 /\ s1 <= s2 /\ 1 <= s3
        BY <2>8, <2>10, <2>11, <2>12
    <2>16. 2 * s2 <= s4
        BY <2>7, <2>13
    <2> HIDE DEF s1, s2, s3, s4
    <2> QED
        BY <2>14, <2>15, <2>16
<1> QED
    BY <1>1, <1>10, <1>11

\* The last instalment exceeds the others by the cents they were rounded by, at
\* most.
LEMMA LastInstalment ==
    ASSUME PriceAssumption, NEW y \in Int, NEW r \in Nat, NEW n \in Nat, n >= 1,
           NEW c \in Nat, Grown(r, c), NEW start
    PROVE  LET x == Schedule(y, r, n, c, start)[n].parcela IN
           x \in Int /\ ~Outweighs(x - Pmt(y, r, n, c), r, n)
<1> DEFINE u == RateUnit + r
           owed == Saldos(y, r, n, c)
           i == n - 1
           o == owed[i]
           J == Juros(y, o, r, c, n)
           p == Pmt(y, r, n, c)
           x == Schedule(y, r, n, c, start)[n].parcela
           W == Den(r, c)
           v == Power(RateUnit, i)
<1>1. /\ u \in Nat /\ u >= 1 /\ RateUnit \in Nat /\ RateUnit >= 1
      /\ n \in 1..n /\ i \in 0..n /\ i \in Nat /\ i + 1 = n
    BY DEF PriceAssumption
<1>2. Leaves(owed, y, r, n, c)
    BY SaldosAre
<1>3. o \in Int /\ p \in Int /\ J \in Int
    <2>1. o \in Int
        BY <1>1, <1>2 DEF Leaves
    <2> HIDE DEF o
    <2> QED
        BY <2>1, PmtIsInt, JurosIsInt
<1>4. x = J + o
    BY <1>1 DEF Schedule, Repayment
<1> HIDE DEF u, owed, o, J, p, x, i
<1>5. v \in Nat /\ W \in Nat /\ W >= 1
    BY <1>1, PowerStep DEF Grown
<1>6. Cents(r, i) \in Nat /\ Cents(r, n) = u * Cents(r, i) + v
    <2>1. Cents(r, i) \in Nat /\ Cents(r, i + 1) = u * Cents(r, i) + v
        BY <1>1, CentsStep DEF u
    <2> QED
        BY <1>1, <2>1
<1>7. (J + o - p) * v <= Cents(r, n)
    <2>1. CASE n = 1
        <3>1. i = 0 /\ o = y
            BY <1>1, <1>2, <2>1 DEF Leaves, o
        <3>2. v = 1 /\ Cents(r, 0) = 0
            BY <1>1, <3>1, PowerStep, CentsStep
        <3>3. Cents(r, n) = 1
            BY <1>1, <1>6, <3>1, <3>2
        <3> DEFINE w == Num(r, c)
        <3>4. w \in Nat
            BY DEF Grown
        <3>5. J = Rounded(y * (w - W), W)
            BY <2>1 DEF J, Juros
        <3>6. 2 * (y * w) <= 2 * (p * W) + W
            <4>1. 2 * (y * Up(r, c, n - 1))
                    <= 2 * (p * (W * Cents(r, n))) + W * Cents(r, n)
                BY PmtIsNear DEF p, W
            <4>2. n - 1 = 0 /\ Up(r, c, 0) = w /\ W * 1 = W
                BY <1>5, <2>1, UpIs
            <4> QED
                BY <3>3, <4>1, <4>2
        <3> HIDE DEF w, W
        <3>7. 2 * (J * W) <= 2 * (y * (w - W)) + W
            <4>1. y * (w - W) \in Int
                BY <1>5, <3>4
            <4> QED
                BY <1>5, <3>5, <4>1, RoundedNear
        <3>8. (2 * (J + y)) * W <= (2 * p + 2) * W
            <4> DEFINE a1 == J * W
                       a2 == y * W
                       a3 == y * w
                       a4 == p * W
                       a5 == (2 * (J + y)) * W
                       a6 == (2 * p + 2) * W
            <4>1. /\ 2 * (y * (w - W)) = 2 * a3 - 2 * a2
                  /\ a5 = 2 * a1 + 2 * a2 /\ a6 = 2 * a4 + 2 * W
                BY <1>3, <1>5, <3>4
            <4>2. a1 \in Int /\ a2 \in Int /\ a3 \in Int /\ a4 \in Int
                BY <1>3, <1>5, <3>4
            <4>3. 2 * a1 <= (2 * a3 - 2 * a2) + W /\ 2 * a3 <= 2 * a4 + W
                BY <3>6, <3>7, <4>1
            <4> HIDE DEF a1, a2, a3, a4, a5, a6
            <4>4. a5 <= a6
                BY <1>5, <4>1, <4>2, <4>3
            <4> QED
                BY <4>4 DEF a5, a6
        <3>9. 2 * (J + y) <= 2 * p + 2
            <4>1. 2 * (J + y) \in Int /\ 2 * p + 2 \in Int
                BY <1>3
            <4> QED
                BY <1>5, <3>8, <4>1, Unscaled
        <3>10. J + o - p <= 1
            BY <1>3, <3>1, <3>9
        <3> QED
            BY <1>3, <3>2, <3>3, <3>10
    <2>2. CASE n >= 2
        <3> DEFINE k == i - 1
                   t == Power(RateUnit, k)
                   a == Cents(r, i)
                   q == 2 * p + 1
        <3>1. i \in 1..(n - 1) /\ k \in Nat /\ k + 1 = i /\ n - i = 1 /\ n # 1
            BY <1>1, <2>2
        <3>2. Power(u, 1) = u /\ Cents(r, 1) = 1
            <4>1. Power(u, 0 + 1) = u * Power(u, 0) /\ Power(u, 0) = 1
                BY <1>1, PowerStep
            <4>2. Cents(r, 0 + 1) = u * Cents(r, 0) + Power(RateUnit, 0)
                  /\ Cents(r, 0) = 0
                BY CentsStep DEF u
            <4>3. Power(RateUnit, 0) = 1
                BY <1>1, PowerStep
            <4> QED
                BY <1>1, <4>1, <4>2, <4>3
        <3>3. 2 * ((o * u) * t) <= 2 * (u * a) + q * ((RateUnit * t) * 1)
            <4> HIDE DEF t, a, k
            <4>1. 2 * ((o * Power(u, n - i)) * Power(RateUnit, i - 1))
                    <= 2 * (Power(u, n - i) * Cents(r, i))
                        + (2 * p + 1) * ((RateUnit * Power(RateUnit, i - 1)) * Cents(r, n - i))
                BY <3>1, Remaining DEF u, o, owed, p
            <4> QED
                BY <3>1, <3>2, <4>1 DEF k, t, a
        <3>4. J = Rounded(o * r, RateUnit)
            BY <3>1 DEF J, Juros
        <3>5. 2 * (J * RateUnit) <= 2 * (o * r) + RateUnit
            <4>1. o * r \in Int
                BY <1>3
            <4> QED
                BY <1>1, <3>4, <4>1, RoundedNear
        <3> HIDE DEF k
        <3>6. t \in Nat /\ v = RateUnit * t
            <4>1. t \in Nat /\ Power(RateUnit, k + 1) = RateUnit * t
                BY <1>1, <3>1, PowerStep
            <4> QED
                BY <3>1, <4>1
        <3>7. a \in Nat /\ Cents(r, n) = u * a + v
            BY <1>6
        <3> HIDE DEF t, v, a
        <3>8. (2 * (J * RateUnit)) * t <= (2 * (o * r) + RateUnit) * t
            <4>1. 2 * (J * RateUnit) \in Int /\ 2 * (o * r) + RateUnit \in Int
                BY <1>1, <1>3
            <4> QED
                BY <3>5, <3>6, <4>1, Scaled
        <3> DEFINE b1 == J * v
                   b2 == (o * r) * t
                   b3 == o * v
                   b4 == p * v
                   b5 == u * a
        <3>9. b1 \in Int /\ b2 \in Int /\ b3 \in Int /\ b4 \in Int /\ b5 \in Int
              /\ v \in Nat
            BY <1>1, <1>3, <3>6, <3>7
        <3>10. /\ (2 * (J * RateUnit)) * t = 2 * b1
               /\ (2 * (o * r) + RateUnit) * t = 2 * b2 + v
            BY <1>1, <1>3, <3>6
        <3>11. /\ 2 * ((o * u) * t) = 2 * b3 + 2 * b2
               /\ q * ((RateUnit * t) * 1) = 2 * b4 + v
            BY <1>1, <1>3, <3>6 DEF u
        <3>12. (J + o - p) * v = b1 + b3 - b4
            BY <1>3, <3>9
        <3>13. 2 * b1 <= 2 * b2 + v /\ 2 * b3 + 2 * b2 <= 2 * b5 + (2 * b4 + v)
            BY <3>3, <3>8, <3>10, <3>11
        <3>14. Cents(r, n) = b5 + v
            BY <3>7
        <3> HIDE DEF b1, b2, b3, b4, b5
        <3>15. b1 + b3 - b4 <= b5 + v
            BY <3>9, <3>13
        <3> QED
            BY <3>12, <3>14, <3>15
    <2> QED
        BY <2>1, <2>2
<1>8. ~(Cents(r, n) < (J + o - p) * v)
    <2>1. Cents(r, n) \in Nat
        BY CentsStep
    <2>2. (J + o - p) * v \in Int
        <3> HIDE DEF v
        <3> QED
            BY <1>3, <1>5
    <2> QED
        BY <1>7, <2>1, <2>2
<1>9. x \in Int /\ ~Outweighs(x - p, r, n)
    BY <1>3, <1>4, <1>8 DEF Outweighs, v, i
<1> QED
    BY <1>9 DEF x, p

-----------------------------------------------------------------------------
(* A simulation *)

Inicial(f) == f.veiculo - f.entrada + f.tarifa

LEMMA FormFields ==
    ASSUME NEW f \in FormType
    PROVE  /\ f.veiculo \in Nat /\ f.entrada \in Nat /\ f.tarifa \in Nat
           /\ f.prazo \in Nat /\ f.prazo >= 1 /\ f.taxa \in Taxas
           /\ f.carencia \in Dias /\ f.incluirIof \in BOOLEAN
           /\ f.extra.valor \in Nat /\ f.extra.meses \in Nat
           /\ f.extra.meses >= 1
BY DEF FormType

LEMMA FormGrows ==
    ASSUME PriceAssumption, GrowthAssumption, NEW f \in FormType
    PROVE  /\ f.taxa \in Taxas /\ f.taxa \in Nat /\ f.carencia \in Nat
           /\ Grown(f.taxa, f.carencia)
           /\ f.carencia >= Mes => AMonth(f.taxa, f.carencia)
<1>1. f.taxa \in Taxas /\ f.carencia \in Dias
    BY FormFields
<1>2. /\ Grown(f.taxa, f.carencia)
      /\ f.carencia >= Mes => AMonth(f.taxa, f.carencia)
    <2> DEFINE r == f.taxa
               c == f.carencia
    <2> HIDE DEF r, c
    <2>1. r \in Taxas /\ c \in Dias
        BY <1>1 DEF r, c
    <2>2. Grown(r, c) /\ (c >= Mes => AMonth(r, c))
        BY <2>1, GrowthIs
    <2> QED
        BY <2>2 DEF r, c
<1> QED
    BY <1>1, <1>2 DEF PriceAssumption

LEMMA FormIsMonthly ==
    ASSUME PriceAssumption, GrowthAssumption, NEW f \in FormType, NEW y \in Int
    PROVE  Monthly(Schedule(y, f.taxa, f.prazo, f.carencia, 0), y,
                   f.prazo, f.carencia, 0)
<1> DEFINE r == f.taxa
           n == f.prazo
           c == f.carencia
<1>1. r \in Nat /\ n \in Nat /\ n >= 1 /\ c \in Nat /\ Grown(r, c)
      /\ 0 \in Int
    <2>1. n \in Nat /\ n >= 1
        BY FormFields
    <2>2. r \in Nat /\ c \in Nat /\ Grown(r, c)
        BY FormGrows
    <2> QED
        BY <2>1, <2>2
<1> HIDE DEF r, n, c
<1>2. Monthly(Schedule(y, r, n, c, 0), y, n, c, 0)
    BY <1>1, ScheduleIsMonthly
<1> QED
    BY <1>2 DEF r, n, c

\* The simulation s of form f, whose rows are a schedule for y.
Shows(s, f, y) ==
    /\ s.form = f
    /\ s.rows = Schedule(y, f.taxa, f.prazo, f.carencia, 0)
    /\ s.iof = s.financiado - Inicial(f) /\ s.financiado \in Int
    /\ ~f.incluirIof => y = s.financiado
    /\ s.pmt \in Int
    /\ f.prazo >= 2 => s.pmt = Pmt(y, f.taxa, f.prazo, f.carencia)
    /\ s.pago = Total(Column(s.rows, "parcela"))
    /\ s.juros = Total(Column(s.rows, "juros"))
    /\ s.extras = [i \in 1..f.prazo |-> Extra(f.extra, f.prazo, i)]

LEMMA ComputedShows ==
    ASSUME PriceAssumption, GrowthAssumption, NEW f \in FormType, NEW s,
           s = Computed(f)
    PROVE  \E y \in Int : Shows(s, f, y)
<1> DEFINE inicial == Inicial(f)
           financed == IF f.incluirIof
                       THEN Financed(inicial, f.taxa, f.prazo, f.carencia)
                       ELSE [pv |-> inicial, iof |-> 0,
                             rows |-> Schedule(inicial, f.taxa, f.prazo,
                                               f.carencia, 0)]
           pmt == IF f.prazo = 1
                  THEN Pmt(financed.pv, f.taxa, 1, f.carencia)
                  ELSE financed.rows[1].parcela
<1>1. s = [form |-> f, financiado |-> financed.pv, iof |-> financed.iof,
           rows |-> financed.rows, pmt |-> pmt,
           pago |-> Total(Column(financed.rows, "parcela")),
           juros |-> Total(Column(financed.rows, "juros")),
           extras |-> [i \in 1..f.prazo |-> Extra(f.extra, f.prazo, i)]]
    BY DEF Computed, Inicial
<1>2. /\ f.prazo \in Nat /\ f.prazo >= 1 /\ f.taxa \in Nat
      /\ f.carencia \in Nat /\ Grown(f.taxa, f.carencia)
    BY FormFields, FormGrows
<1>3. inicial \in Int
    <2>1. f.veiculo \in Nat /\ f.entrada \in Nat /\ f.tarifa \in Nat
        BY FormFields
    <2> QED
        BY <2>1 DEF Inicial
<1> HIDE DEF inicial
<1>4. \E y \in Int :
         /\ financed.rows = Schedule(y, f.taxa, f.prazo, f.carencia, 0)
         /\ financed.iof = financed.pv - inicial /\ financed.pv \in Int
         /\ ~f.incluirIof => y = financed.pv
    <2>1. CASE f.incluirIof
        <3>1. Taxed(inicial, f.taxa, f.prazo, f.carencia,
                    Financed(inicial, f.taxa, f.prazo, f.carencia))
            <4> DEFINE r == f.taxa
                       n == f.prazo
                       c == f.carencia
            <4>1. r \in Nat /\ n \in Nat /\ n >= 1 /\ c \in Nat
                  /\ Grown(r, c)
                BY <1>2
            <4> HIDE DEF r, n, c
            <4>2. Taxed(inicial, r, n, c, Financed(inicial, r, n, c))
                BY <1>3, <4>1, FinancedIsTaxed
            <4> QED
                BY <4>2 DEF r, n, c
        <3>2. financed = Financed(inicial, f.taxa, f.prazo, f.carencia)
            BY <2>1
        <3> HIDE DEF financed
        <3>3. Taxed(inicial, f.taxa, f.prazo, f.carencia, financed)
            BY <3>1, <3>2
        <3> QED
            BY <1>3, <2>1, <3>3 DEF Taxed
    <2>2. CASE ~f.incluirIof
        <3>1. /\ financed.pv = inicial /\ financed.iof = 0
              /\ financed.rows = Schedule(inicial, f.taxa, f.prazo,
                                          f.carencia, 0)
            BY <2>2
        <3> HIDE DEF financed
        <3> QED
            BY <1>3, <3>1
    <2> QED
        BY <2>1, <2>2
<1> HIDE DEF financed
<1>5. PICK y \in Int :
         /\ financed.rows = Schedule(y, f.taxa, f.prazo, f.carencia, 0)
         /\ financed.iof = financed.pv - inicial /\ financed.pv \in Int
         /\ ~f.incluirIof => y = financed.pv
    BY <1>4
<1>6. pmt \in Int
    <2> DEFINE r == f.taxa
               n == f.prazo
               c == f.carencia
               pv == financed.pv
               rows == Schedule(y, r, n, c, 0)
    <2>1. r \in Nat /\ n \in Nat /\ n >= 1 /\ c \in Nat /\ Grown(r, c)
          /\ pv \in Int /\ 0 \in Int
        BY <1>2, <1>5
    <2>2. pmt = IF n = 1 THEN Pmt(pv, r, 1, c) ELSE rows[1].parcela
        BY <1>5
    <2> HIDE DEF r, n, c, pv, pmt
    <2>3. Pmt(pv, r, 1, c) \in Int
        BY <2>1, PmtIsInt
    <2>4. Chain(rows, y) /\ Len(rows) = n
        <3>1. Monthly(Schedule(y, f.taxa, f.prazo, f.carencia, 0), y,
                      f.prazo, f.carencia, 0)
            BY FormIsMonthly
        <3> QED
            BY <3>1 DEF r, n, c, Monthly
    <2> HIDE DEF rows
    <2>5. rows[1] \in RowType
        BY <2>1, <2>4 DEF Chain
    <2>6. rows[1].parcela \in Int
        BY <2>5, RowFields
    <2> QED
        BY <2>2, <2>3, <2>6
<1>8. f.prazo >= 2 => pmt = Pmt(y, f.taxa, f.prazo, f.carencia)
    <2> DEFINE r == f.taxa
               n == f.prazo
               c == f.carencia
    <2> SUFFICES ASSUME n >= 2 PROVE pmt = Pmt(y, r, n, c)
        OBVIOUS
    <2>1. n \in Nat /\ 1 \in 1..n /\ 1 < n /\ n # 1
        BY <1>2
    <2>2. pmt = Schedule(y, r, n, c, 0)[1].parcela
        BY <1>5, <2>1
    <2> HIDE DEF r, n, c, pmt
    <2> QED
        BY <2>1, <2>2, ScheduleColumns
<1> HIDE DEF pmt
<1>7. /\ s.form = f /\ s.rows = financed.rows /\ s.iof = financed.iof
      /\ s.financiado = financed.pv /\ s.pmt = pmt
      /\ s.pago = Total(Column(financed.rows, "parcela"))
      /\ s.juros = Total(Column(financed.rows, "juros"))
      /\ s.extras = [i \in 1..f.prazo |-> Extra(f.extra, f.prazo, i)]
    BY <1>1
<1> QED
    BY <1>5, <1>6, <1>7, <1>8 DEF Shows, inicial

\* The simulation is what its form comes to, the schedule what the payments
\* make of it.
SimInv ==
    /\ sim # None => \E f \in Forms : sim = Computed(f)
    /\ plan # None =>
          /\ sim # None /\ paid \in Payments
          /\ plan = AfterPayments(
                       [rows |-> sim.rows, pmt |-> sim.pmt, settled |-> FALSE],
                       paid, sim.form.taxa)

LEMMA SimInvHolds == Spec => []SimInv
<1>1. Init => SimInv
    BY DEF Init, SimInv
<1>2. SimInv /\ [Next]_vars => SimInv'
    <2> SUFFICES ASSUME SimInv, [Next]_vars PROVE SimInv'
        OBVIOUS
    <2>1. ASSUME NEW f \in Forms, Simulate(f) PROVE SimInv'
        <3>1. sim = None /\ sim' = Computed(f) /\ plan' = plan
            BY <2>1 DEF Simulate
        <3>2. plan = None
            BY <3>1 DEF SimInv
        <3> QED
            BY <3>1, <3>2 DEF SimInv, None
    <2>2. ASSUME NEW payments \in Payments, Apply(payments) PROVE SimInv'
        <3>1. /\ sim # None /\ sim' = sim /\ paid' = payments
              /\ plan' = AfterPayments(
                            [rows |-> sim.rows, pmt |-> sim.pmt,
                             settled |-> FALSE], payments, sim.form.taxa)
            BY <2>2 DEF Apply
        <3>2. Payments' = Payments /\ None' = None
            BY DEF Payments, None
        <3> QED
            BY <3>1, <3>2 DEF SimInv
    <2>3. CASE UNCHANGED vars
        BY <2>3 DEF SimInv, vars, Payments, None
    <2> QED
        BY <2>1, <2>2, <2>3 DEF Next
<1> QED
    BY <1>1, <1>2, PTL DEF Spec

LEMMA SimulationIs ==
    ASSUME PriceAssumption, LoansAssumption, SimInv, sim # None
    PROVE  \E f \in FormType : sim = Computed(f)
BY DEF SimInv, LoansAssumption

\* What a simulation of _compute shows hangs together, for any amounts, rates
\* and terms: see SimulationsAddUp.
THEOREM SimulationsTally == Spec => []SimulationsAddUp
<1>1. SimInv => SimulationsAddUp
    <2> SUFFICES ASSUME SimInv, sim # None
                 PROVE  /\ Outweighs(sim.pmt, sim.form.taxa, sim.form.prazo) =>
                              \A i \in DOMAIN sim.rows : sim.rows[i].saldo >= 0
                        /\ ~sim.form.incluirIof => Repaid(sim.rows) = sim.financiado
                        /\ Last(sim.rows).saldo = 0
                        /\ sim.iof = sim.financiado
                             - (sim.form.veiculo - sim.form.entrada
                                  + sim.form.tarifa)
                        /\ sim.pago = Repaid(sim.rows) + sim.juros
        BY DEF SimulationsAddUp
    <2> USE PriceAssumption, GrowthAssumption, LoansAssumption
    <2>1. PICK f \in FormType : sim = Computed(f)
        BY SimulationIs
    <2>2. PICK y \in Int : Shows(sim, f, y)
        BY <2>1, ComputedShows
    <2> DEFINE rows == sim.rows
    <2>3. Chain(rows, y)
        <3>1. Monthly(Schedule(y, f.taxa, f.prazo, f.carencia, 0), y,
                      f.prazo, f.carencia, 0)
            BY FormIsMonthly
        <3> QED
            BY <2>2, <3>1 DEF Monthly, Shows
    <2>4. /\ Repaid(rows) = y
          /\ Total(Column(rows, "parcela"))
                = Repaid(rows) + Total(Column(rows, "juros"))
        <3> HIDE DEF rows
        <3> QED
            BY <2>3, ChainAddsUp
    <2>5. Last(rows).saldo = 0
        BY <2>3 DEF Chain, Last
    <2>6. Inicial(f) = sim.form.veiculo - sim.form.entrada + sim.form.tarifa
        BY <2>2 DEF Inicial, Shows
    <2>7. ASSUME Outweighs(sim.pmt, f.taxa, f.prazo), NEW i \in DOMAIN rows
          PROVE  rows[i].saldo >= 0
        <3> DEFINE r == f.taxa
                   n == f.prazo
                   c == f.carencia
        <3>1. r \in Nat /\ n \in Nat /\ n >= 1 /\ c \in Nat /\ Grown(r, c)
            BY FormFields, FormGrows
        <3>2. rows = Schedule(y, r, n, c, 0)
            BY <2>2 DEF Shows
        <3>3. Monthly(rows, y, n, c, 0)
            BY <3>2, FormIsMonthly
        <3>4. n >= 2 => sim.pmt = Pmt(y, r, n, c)
            BY <2>2 DEF Shows
        <3>5. Outweighs(sim.pmt, r, n)
            BY <2>7
        <3> HIDE DEF rows, r, n, c
        <3>6. i \in 1..n
            BY <2>7, <3>3 DEF Monthly, Chain, rows
        <3>7. CASE n = 1
            BY <3>3, <3>6, <3>7 DEF Monthly, Chain
        <3>8. CASE n # 1
            <4>1. n >= 2 /\ Outweighs(Pmt(y, r, n, c), r, n)
                BY <3>1, <3>4, <3>5, <3>8
            <4>2. Saldos(y, r, n, c)[i] >= 0
                BY <3>1, <3>6, <4>1, NothingOverpaid
            <4>3. rows[i].saldo = Saldos(y, r, n, c)[i]
                BY <3>1, <3>2, <3>6, ScheduleColumns
            <4> QED
                BY <4>2, <4>3
        <3> QED
            BY <3>7, <3>8
    <2>8. sim.form = f
        BY <2>2 DEF Shows
    <2> QED
        BY <2>2, <2>4, <2>5, <2>6, <2>7, <2>8 DEF Shows
<1> QED
    BY <1>1, SimInvHolds, PTL

-----------------------------------------------------------------------------
(* Costs on top of the instalments *)

LEMMA DivIs ==
    ASSUME NEW a \in Nat, NEW m \in Nat, m >= 1
    PROVE  /\ a \div m \in Nat
           /\ (a \div m) * m <= a /\ a < (a \div m) * m + m
<1>1. a \div m \in Nat
    OBVIOUS
<1>2. a = m * (a \div m) + (a % m) /\ 0 <= a % m /\ a % m < m
    OBVIOUS
<1>3. m * (a \div m) = (a \div m) * m
    BY <1>1
<1> QED
    BY <1>1, <1>2, <1>3

LEMMA DivUnique ==
    ASSUME NEW a \in Nat, NEW m \in Nat, m >= 1, NEW q \in Nat,
           q * m <= a, a < q * m + m
    PROVE  a \div m = q
<1> DEFINE p == a \div m
<1>1. p \in Nat /\ p * m <= a /\ a < p * m + m
    BY DivIs
<1> HIDE DEF p
<1>2. p * m \in Nat /\ q * m \in Nat
    BY <1>1
<1>3. ~(p >= q + 1)
    <2> SUFFICES ASSUME p >= q + 1 PROVE FALSE
        OBVIOUS
    <2>1. (q + 1) * m <= p * m
        BY <1>1, ProductsGrow
    <2>2. (q + 1) * m = q * m + m
        OBVIOUS
    <2> QED
        BY <1>1, <1>2, <2>1, <2>2
<1>4. ~(q >= p + 1)
    <2> SUFFICES ASSUME q >= p + 1 PROVE FALSE
        OBVIOUS
    <2>1. (p + 1) * m <= q * m
        BY <1>1, ProductsGrow
    <2>2. (p + 1) * m = p * m + m
        BY <1>1
    <2> QED
        BY <1>1, <1>2, <2>1, <2>2
<1> QED
    BY <1>1, <1>3, <1>4 DEF p

LEMMA RoundedBounds ==
    ASSUME NEW a \in Nat, NEW b \in Nat, b >= 1
    PROVE  /\ Rounded(a, b) \in Nat
           /\ 2 * (Rounded(a, b) * b) <= 2 * a + b
<1> DEFINE q == a \div b
           m == a % b
<1>1. q \in Nat /\ m \in Nat /\ a = b * q + m
    OBVIOUS
<1>2. Rounded(a, b) = q + (IF 2 * m >= b THEN 1 ELSE 0)
    BY DEF Rounded
<1> HIDE DEF q, m
<1>3. b * q = q * b /\ (q + 1) * b = q * b + b /\ q * b \in Nat
    BY <1>1
<1>4. CASE 2 * m >= b
    BY <1>1, <1>2, <1>3, <1>4
<1>5. CASE ~(2 * m >= b)
    BY <1>1, <1>2, <1>3, <1>5
<1> QED
    BY <1>4, <1>5

\* What all months but the last pay of a value does not exceed it, unless the
\* value is so small that its rounding does.
LEMMA LastShareIsPositive ==
    ASSUME NEW valor \in Nat, NEW months \in Nat, NEW meses \in Nat, NEW n \in Nat,
           months >= 1, months <= meses, months <= n, 2 * valor >= n * n
    PROVE  Rounded(valor, meses) * (months - 1) <= valor
<1> DEFINE k == months - 1
           d == meses - months
           b == meses
           per == Rounded(valor, meses)
<1>1. k \in Nat /\ d \in Nat /\ b \in Nat /\ b = k + 1 + d /\ b >= 1
      /\ k <= n /\ b <= n + d /\ n >= 1 /\ n + d \in Nat
    OBVIOUS
<1>2. per \in Nat /\ 2 * (per * b) <= 2 * valor + b
    BY <1>1, RoundedBounds
<1> HIDE DEF k, d, b, per
<1>3. b * k <= (n + d) * n
    BY <1>1, ProductsGrow
<1>4. (n + d) * n = n * n + d * n
    BY <1>1
<1>5. d * n <= d * (n * n)
    <2>1. 1 * n <= n * n /\ n * n \in Nat
        BY <1>1, ProductsGrow
    <2> QED
        BY <1>1, <2>1, ProductsGrow
<1>6. d * (n * n) <= d * (2 * valor)
    <2>1. n * n \in Nat /\ 2 * valor \in Nat
        OBVIOUS
    <2> QED
        BY <1>1, <2>1, ProductsGrow
<1> DEFINE v2 == 2 * valor
<1>7. v2 \in Nat /\ v2 >= n * n /\ n * n \in Nat
    OBVIOUS
<1>8. b * k <= v2 + d * v2
    <2>1. d * n \in Nat /\ d * (n * n) \in Nat /\ d * v2 \in Nat /\ b * k \in Nat
        BY <1>1, <1>7
    <2> HIDE DEF v2
    <2>2. d * (n * n) <= d * v2
        BY <1>6 DEF v2
    <2> QED
        BY <1>3, <1>4, <1>5, <1>7, <2>1, <2>2
<1> HIDE DEF v2
<1>9. (2 * (per * b)) * k <= (v2 + b) * k
    <2>1. 2 * (per * b) \in Nat /\ v2 + b \in Nat /\ 2 * (per * b) <= v2 + b
        BY <1>1, <1>2, <1>7 DEF v2
    <2> QED
        BY <1>1, <2>1, ProductsGrow
<1>10. (v2 + b) * k = v2 * k + b * k
    BY <1>1, <1>7
<1>11. v2 * b = v2 * k + v2 + d * v2
    BY <1>1, <1>7
<1>12. (2 * (per * b)) * k = (2 * b) * (per * k)
    BY <1>1, <1>2
<1>13. v2 * b = (2 * b) * valor
    BY <1>1 DEF v2
<1>14. (2 * b) * (per * k) <= (2 * b) * valor
    <2>1. /\ v2 * k \in Nat /\ b * k \in Nat /\ d * v2 \in Nat
        BY <1>1, <1>7
    <2>2. (2 * b) * (per * k) <= v2 * k + b * k
        BY <1>9, <1>10, <1>12
    <2>3. v2 * k + b * k <= v2 * k + v2 + d * v2
        <3> DEFINE A == v2 * k
                   B == b * k
                   C == d * v2
        <3>1. A \in Nat /\ B \in Nat /\ C \in Nat /\ B <= v2 + C
            BY <1>8, <2>1
        <3> HIDE DEF A, B, C
        <3>2. A + B <= A + v2 + C
            BY <1>7, <3>1
        <3> QED
            BY <3>2 DEF A, B, C
    <2>4. v2 * k + v2 + d * v2 = (2 * b) * valor
        BY <1>11, <1>13
    <2>5. v2 * k + b * k <= (2 * b) * valor
        BY <2>3, <2>4
    <2>6. /\ (2 * b) * (per * k) \in Int /\ v2 * k + b * k \in Int
          /\ (2 * b) * valor \in Int
        BY <1>1, <1>2, <2>1
    <2> DEFINE X == (2 * b) * (per * k)
               Y == v2 * k + b * k
               Z == (2 * b) * valor
    <2>7. X <= Y /\ Y <= Z /\ X \in Int /\ Y \in Int /\ Z \in Int
        BY <2>2, <2>5, <2>6
    <2> HIDE DEF X, Y, Z
    <2>8. X <= Z
        BY <2>7
    <2> QED
        BY <2>8 DEF X, Z
<1>15. per * k \in Nat /\ 2 * b \in Nat /\ 2 * b >= 1
    BY <1>1, <1>2
<1>16. ~(per * k >= valor + 1)
    <2> SUFFICES ASSUME per * k >= valor + 1 PROVE FALSE
        OBVIOUS
    <2>1. (2 * b) * (valor + 1) <= (2 * b) * (per * k)
        BY <1>15, ProductsGrow
    <2>2. (2 * b) * (valor + 1) = (2 * b) * valor + 2 * b
        BY <1>15
    <2>3. (2 * b) * valor \in Nat /\ (2 * b) * (per * k) \in Nat
        BY <1>15
    <2> QED
        BY <1>14, <1>15, <2>1, <2>2, <2>3
<1> QED
    BY <1>15, <1>16 DEF per, k

\* A value spread over the first months is charged to the cent.
LEMMA SpreadTotal ==
    ASSUME NEW valor \in Nat, NEW per \in Int, NEW n \in Nat, NEW months \in 1..n,
           NEW s \in [1..n -> Int],
           \A i \in 1..n : s[i] = IF i > months THEN 0
                                  ELSE Share(valor, per, months, i)
    PROVE  Total(s) = valor
<1> DEFINE g == [i \in 0..n |-> IF i < months THEN per * i ELSE valor]
<1>1. s \in Seq(Int) /\ Len(s) = n
    OBVIOUS
<1>2. \A i \in 0..n : g[i] = IF i < months THEN per * i ELSE valor
    OBVIOUS
<1> HIDE DEF g
<1>3. g[0] = 0 /\ g[n] = valor
    <2>1. 0 \in 0..n /\ n \in 0..n /\ 0 < months /\ ~(n < months)
        OBVIOUS
    <2> QED
        BY <1>2, <2>1
<1>4. ASSUME NEW i \in 1..n PROVE g[i] = g[i - 1] + s[i]
    <2>1. i \in 0..n /\ i - 1 \in 0..n /\ i \in Int /\ months \in Int
        OBVIOUS
    <2>2. /\ g[i] = IF i < months THEN per * i ELSE valor
          /\ g[i - 1] = IF i - 1 < months THEN per * (i - 1) ELSE valor
        BY <1>2, <2>1
    <2>3. per * i = per * (i - 1) + per /\ per * (i - 1) \in Int
        BY <2>1
    <2>4. CASE i < months
        <3>1. s[i] = per
            BY <2>1, <2>4 DEF Share
        <3>2. g[i] = per * i /\ g[i - 1] = per * (i - 1)
            BY <2>1, <2>2, <2>4
        <3> QED
            BY <2>3, <3>1, <3>2
    <2>5. CASE i = months
        <3>1. s[i] = valor - per * (i - 1)
            BY <2>1, <2>5 DEF Share
        <3>2. g[i] = valor /\ g[i - 1] = per * (i - 1)
            BY <2>1, <2>2, <2>5
        <3> QED
            BY <2>3, <3>1, <3>2
    <2>6. CASE i > months
        <3>1. s[i] = 0
            BY <2>6
        <3>2. g[i] = valor /\ g[i - 1] = valor
            BY <2>1, <2>2, <2>6
        <3> QED
            BY <3>1, <3>2
    <2> QED
        BY <2>1, <2>4, <2>5, <2>6
<1>5. Sums(s, g)
    BY <1>1, <1>3, <1>4 DEF Sums
<1> QED
    BY <1>1, <1>3, <1>5, TotalIs

\* The months of cycle q that the term holds.
InCycle(n, meses, q) == Least(meses, n - q * meses)

\* A value charged anew every so many months is charged to the cent in each
\* cycle, the one that the term cuts short included.
LEMMA CyclesTotal ==
    ASSUME NEW valor \in Nat, NEW n \in Nat, n >= 1, NEW m \in Nat, m >= 1,
           NEW s \in [1..n -> Int],
           \A i \in 1..n : LET q == (i - 1) \div m
                               months == InCycle(n, m, q)
                           IN s[i] = Share(valor, Rounded(valor, months),
                                           months, i - q * m)
    PROVE  Total(s) = ((n + m - 1) \div m) * valor
<1> DEFINE q(i) == (i - 1) \div m
           c(i) == InCycle(n, m, q(i))
           per(i) == Rounded(valor, c(i))
           j(i) == i - q(i) * m
           G(i) == q(i) * valor + (IF j(i) < c(i) THEN per(i) * j(i) ELSE valor)
           g == [i \in 0..n |-> IF i = 0 THEN 0 ELSE G(i)]
<1>1. s \in Seq(Int) /\ Len(s) = n
    OBVIOUS
<1>2. ASSUME NEW i \in 1..n
      PROVE  /\ q(i) \in Nat /\ j(i) \in Nat /\ c(i) \in Nat
             /\ 1 <= j(i) /\ j(i) <= c(i) /\ c(i) <= m
             /\ per(i) \in Int
             /\ c(i) = m \/ c(i) = n - q(i) * m
             /\ i = q(i) * m + j(i) /\ q(i) * m \in Nat
             /\ s[i] = Share(valor, per(i), c(i), j(i))
    <2>1. i - 1 \in Nat
        OBVIOUS
    <2>2. q(i) \in Nat /\ q(i) * m <= i - 1 /\ i - 1 < q(i) * m + m
        BY <2>1, DivIs
    <2>3. s[i] = Share(valor, per(i), c(i), j(i))
        OBVIOUS
    <2>4. c(i) = Least(m, n - q(i) * m)
        BY DEF InCycle
    <2> HIDE DEF q, c
    <2>5. q(i) * m \in Nat
        BY <2>2
    <2>6. c(i) \in Nat /\ c(i) >= 1 /\ j(i) <= c(i) /\ c(i) <= m /\ j(i) \in Nat
          /\ 1 <= j(i) /\ (c(i) = m \/ c(i) = n - q(i) * m)
        <3> DEFINE x == q(i) * m
        <3>1. /\ j(i) = i - x /\ c(i) = Least(m, n - x) /\ x \in Nat
              /\ x <= i - 1 /\ i - 1 < x + m
            BY <2>2, <2>4, <2>5
        <3> HIDE DEF j, x
        <3>2. /\ c(i) \in Nat /\ c(i) >= 1 /\ j(i) <= c(i) /\ c(i) <= m
              /\ j(i) \in Nat /\ 1 <= j(i) /\ (c(i) = m \/ c(i) = n - x)
            BY <3>1 DEF Least
        <3> QED
            BY <3>2 DEF x
    <2>7. per(i) \in Int
        BY <2>6, RoundedIsInt
    <2>8. i = q(i) * m + j(i)
        BY <2>5
    <2> QED
        BY <2>2, <2>3, <2>5, <2>6, <2>7, <2>8
<1>3. ASSUME NEW i \in 2..n
      PROVE  \/ q(i - 1) = q(i)
             \/ q(i) = q(i - 1) + 1 /\ j(i) = 1 /\ j(i - 1) = m
    <2>1. i \in 1..n /\ i - 1 \in 1..n
        OBVIOUS
    <2> DEFINE p == q(i)
    <2>2. /\ p \in Nat /\ p * m \in Nat /\ j(i) \in Nat /\ 1 <= j(i)
          /\ j(i) <= m /\ i = p * m + j(i)
        <3>1. /\ p \in Nat /\ p * m \in Nat /\ j(i) \in Nat /\ 1 <= j(i)
              /\ j(i) <= c(i) /\ c(i) <= m /\ c(i) \in Nat
              /\ i = p * m + j(i)
            BY <1>2, <2>1
        <3> HIDE DEF j, c, p
        <3> QED
            BY <3>1
    <2>3. CASE j(i) > 1
        <3>1. i - 2 \in Nat /\ p * m <= i - 2 /\ i - 2 < p * m + m
            BY <2>2, <2>3
        <3> HIDE DEF q
        <3>2. (i - 2) \div m = p
            BY <2>2, <3>1, DivUnique
        <3>3. (i - 1) - 1 = i - 2
            OBVIOUS
        <3> QED
            BY <3>2, <3>3 DEF q
    <2>4. CASE j(i) = 1
        <3>1. i - 1 = p * m /\ i - 1 >= 1
            BY <2>2, <2>4
        <3> HIDE DEF p
        <3>2. p >= 1
            <4> SUFFICES ASSUME p = 0 PROVE FALSE
                BY <2>2
            <4> QED
                BY <3>1
        <3> DEFINE o == p - 1
        <3>3. o \in Nat /\ p = o + 1
            BY <2>2, <3>2
        <3> HIDE DEF o
        <3>4. p * m = o * m + m /\ o * m \in Nat
            BY <3>3
        <3>5. i - 2 \in Nat /\ o * m <= i - 2 /\ i - 2 < o * m + m
            BY <3>1, <3>4
        <3>6. (i - 2) \div m = o
            BY <3>3, <3>5, DivUnique
        <3>7. q(i - 1) = o
            <4>1. (i - 1) - 1 = i - 2
                OBVIOUS
            <4> QED
                BY <3>6, <4>1
        <3>8. j(i - 1) = m
            <4>1. j(i - 1) = (i - 1) - o * m
                BY <3>7
            <4> HIDE DEF q, j
            <4> QED
                BY <3>1, <3>4, <4>1
        <3> HIDE DEF q, j
        <3> QED
            BY <2>4, <3>3, <3>7, <3>8 DEF p
    <2> HIDE DEF q, j, p
    <2> QED
        BY <2>2, <2>3, <2>4
<1>4. q(1) = 0
    <2>1. 0 * m <= 0 /\ 0 < 0 * m + m /\ 0 \in Nat
        OBVIOUS
    <2>2. 0 \div m = 0
        BY <2>1, DivUnique
    <2> QED
        BY <2>2
<1>5. \A i \in 1..n : i \in 0..n /\ i # 0
    OBVIOUS
<1>6. g[0] = 0 /\ \A i \in 1..n : g[i] = G(i)
    <2>1. 0 \in 0..n
        OBVIOUS
    <2> HIDE DEF G
    <2> QED
        BY <1>5, <2>1
<1> HIDE DEF g
<1>7. ASSUME NEW i \in 1..n PROVE g[i] = g[i - 1] + s[i]
    <2>1. /\ q(i) \in Nat /\ j(i) \in Nat /\ c(i) \in Nat
          /\ 1 <= j(i) /\ j(i) <= c(i) /\ per(i) \in Int
          /\ i = q(i) * m + j(i) /\ q(i) * m \in Nat
          /\ s[i] = Share(valor, per(i), c(i), j(i))
        BY <1>2
    <2>2. g[i] = G(i)
        BY <1>6
    <2>3. j(i) = 1 => s[i] = IF j(i) < c(i) THEN per(i) * j(i) ELSE valor
        <3> SUFFICES ASSUME j(i) = 1
                     PROVE  s[i] = IF j(i) < c(i) THEN per(i) * j(i) ELSE valor
            OBVIOUS
        <3> HIDE DEF q, j, c, per
        <3>1. s[i] = Share(valor, per(i), c(i), 1)
            BY <2>1
        <3>2. 1 < c(i) => s[i] = per(i)
            BY <3>1 DEF Share
        <3>3. ~(1 < c(i)) => s[i] = valor - per(i) * (c(i) - 1)
            BY <3>1 DEF Share
        <3>4. ~(1 < c(i)) => c(i) - 1 = 0
            BY <2>1
        <3>5. per(i) * 1 = per(i) /\ valor - per(i) * 0 = valor
            BY <2>1
        <3> QED
            BY <2>1, <3>2, <3>3, <3>4, <3>5
    <2>4. CASE i = 1
        <3>1. q(i) = 0 /\ j(i) = 1
            BY <1>4, <2>4
        <3>2. g[i - 1] = 0
            BY <1>6, <2>4
        <3>3. q(i) * valor = 0
            BY <3>1
        <3>4. s[i] \in Int
            OBVIOUS
        <3> HIDE DEF q, j, c, per
        <3> QED
            BY <2>2, <2>3, <3>1, <3>2, <3>3, <3>4
    <2>5. CASE i # 1
        <3>1. i \in 2..n /\ i - 1 \in 1..n
            BY <2>5
        <3>2. g[i - 1] = G(i - 1)
            BY <1>6, <3>1
        <3>3. /\ q(i - 1) \in Nat /\ j(i - 1) \in Nat /\ c(i - 1) \in Nat
              /\ c(i - 1) <= m /\ j(i - 1) <= c(i - 1)
              /\ i - 1 = q(i - 1) * m + j(i - 1)
            BY <1>2, <3>1
        <3>4. CASE q(i - 1) = q(i)
            <4>1. c(i - 1) = c(i) /\ per(i - 1) = per(i)
                BY <3>4
            <4>2. j(i - 1) = j(i) - 1
                <5> DEFINE x == q(i) * m
                <5>1. j(i - 1) = (i - 1) - x /\ j(i) = i - x /\ x \in Nat
                    BY <2>1, <3>4
                <5> HIDE DEF q, j, x
                <5> QED
                    BY <5>1
            <4>3. G(i - 1) = q(i) * valor + (IF j(i) - 1 < c(i)
                                             THEN per(i) * (j(i) - 1) ELSE valor)
                <5> HIDE DEF q, j, c, per
                <5> QED
                    BY <3>4, <4>1, <4>2
            <4> DEFINE A == q(i) * valor
                       B == per(i)
                       C == c(i)
                       J == j(i)
            <4>4. A \in Int /\ B \in Int /\ C \in Nat /\ J \in Nat /\ 1 <= J
                  /\ J <= C
                BY <2>1
            <4>5. G(i) = A + (IF J < C THEN B * J ELSE valor)
                OBVIOUS
            <4>6. G(i - 1) = A + (IF J - 1 < C THEN B * (J - 1) ELSE valor)
                BY <4>3
            <4>7. s[i] = IF J < C THEN B ELSE valor - B * (C - 1)
                BY <2>1 DEF Share
            <4> HIDE DEF G, A, B, C, J
            <4>8. B * J = B * (J - 1) + B /\ B * (J - 1) \in Int
                BY <4>4
            <4>9. CASE J < C
                <5>1. G(i) = A + B * J /\ G(i - 1) = A + B * (J - 1) /\ s[i] = B
                    BY <4>4, <4>5, <4>6, <4>7, <4>9
                <5> QED
                    BY <2>2, <3>2, <4>4, <4>8, <5>1
            <4>10. CASE J = C
                <5>1. /\ G(i) = A + valor /\ G(i - 1) = A + B * (J - 1)
                      /\ s[i] = valor - B * (J - 1)
                    BY <4>4, <4>5, <4>6, <4>7, <4>10
                <5> QED
                    BY <2>2, <3>2, <4>4, <4>8, <5>1
            <4> QED
                BY <4>4, <4>9, <4>10
        <3>5. CASE q(i) = q(i - 1) + 1 /\ j(i) = 1 /\ j(i - 1) = m
            <4>1. ~(j(i - 1) < c(i - 1))
                <5> HIDE DEF q, j, c
                <5> QED
                    BY <3>3, <3>5
            <4>2. G(i - 1) = q(i - 1) * valor + valor
                <5> HIDE DEF q, j, c
                <5> QED
                    BY <4>1
            <4>3. q(i) * valor = q(i - 1) * valor + valor
                <5> HIDE DEF q, j, c
                <5> QED
                    BY <3>3, <3>5
            <4>4. G(i) = q(i) * valor + s[i]
                <5> HIDE DEF q, j, c, per
                <5> QED
                    BY <2>3, <3>5
            <4> HIDE DEF q, j, c, G
            <4> QED
                BY <2>2, <3>2, <4>2, <4>3, <4>4
        <3> QED
            BY <1>3, <3>1, <3>4, <3>5
    <2> QED
        BY <2>4, <2>5
<1>8. Sums(s, g)
    BY <1>1, <1>6, <1>7 DEF Sums
<1>9. Total(s) = g[n]
    BY <1>1, <1>8, TotalIs
<1>10. G(n) = q(n) * valor + valor
    <2>1. n \in 1..n
        OBVIOUS
    <2>2. ~(j(n) < c(n))
        <3>1. /\ q(n) \in Nat /\ j(n) \in Nat /\ c(n) \in Nat /\ c(n) <= m
              /\ c(n) = m \/ c(n) = n - q(n) * m
              /\ n = q(n) * m + j(n) /\ q(n) * m \in Nat /\ j(n) <= c(n)
            BY <1>2, <2>1
        <3>2. c(n) = Least(m, n - q(n) * m)
            BY DEF InCycle
        <3> DEFINE x == q(n) * m
        <3>3. c(n) = Least(m, n - x) /\ j(n) = n - x /\ x \in Nat
            BY <3>1, <3>2
        <3> HIDE DEF j, c, x
        <3> QED
            BY <3>1, <3>3 DEF Least
    <2> HIDE DEF q, j, c
    <2> QED
        BY <2>2
<1>11. (n + m - 1) \div m = q(n) + 1
    <2>1. n \in 1..n
        OBVIOUS
    <2>2. n - 1 \in Nat
        OBVIOUS
    <2>3. q(n) \in Nat /\ q(n) * m <= n - 1 /\ n - 1 < q(n) * m + m
        BY <2>2, DivIs
    <2> DEFINE p == q(n)
               o == p + 1
    <2>4. p \in Nat /\ p * m <= n - 1 /\ n - 1 < p * m + m
        BY <2>3
    <2> HIDE DEF p
    <2>5. /\ o * m = p * m + m /\ p * m \in Nat /\ o \in Nat
          /\ n + m - 1 \in Nat /\ o * m <= n + m - 1 /\ n + m - 1 < o * m + m
        BY <2>4
    <2> HIDE DEF o
    <2>6. (n + m - 1) \div m = o
        BY <2>5, DivUnique
    <2> QED
        BY <2>6 DEF o, p
<1>12. q(n) \in Nat
    <2>1. n \in 1..n
        OBVIOUS
    <2> QED
        BY <1>2, <2>1
<1> HIDE DEF q, G
<1>13. (q(n) + 1) * valor = q(n) * valor + valor
    BY <1>12
<1>14. n \in 1..n
    OBVIOUS
<1> QED
    BY <1>6, <1>9, <1>10, <1>11, <1>13, <1>14

ExtraType == [valor: Nat, meses: Nat \ {0},
              modo: {"unico_inicial", "mensal_continuo", "rateio_meses",
                     "rateio_ciclico"}]

\* A share of a spread cost is a number, and no reduction unless the value is
\* smaller than its rounding.
LEMMA ShareIs ==
    ASSUME NEW valor \in Nat, NEW months \in Nat, NEW meses \in Nat, NEW n \in Nat,
           months >= 1, months <= meses, months <= n, NEW i \in Nat
    PROVE  LET x == Share(valor, Rounded(valor, meses), months, i) IN
           x \in Int /\ (2 * valor >= n * n => x >= 0)
<1> DEFINE per == Rounded(valor, meses)
           x == Share(valor, per, months, i)
<1>1. per \in Nat
    <2>1. meses >= 1
        OBVIOUS
    <2> QED
        BY <2>1, RoundedBounds
<1>2. 2 * valor >= n * n => per * (months - 1) <= valor
    BY LastShareIsPositive
<1> HIDE DEF per
<1>3. per * (months - 1) \in Int
    BY <1>1
<1>4. x = IF i < months THEN per ELSE valor - per * (months - 1)
    BY DEF Share
<1> HIDE DEF x
<1>5. x \in Int /\ (2 * valor >= n * n => x >= 0)
    BY <1>1, <1>2, <1>3, <1>4
<1> QED
    BY <1>5 DEF x, per

\* Every month's cost, whatever its kind.
LEMMA ExtraIs ==
    ASSUME NEW e \in ExtraType, NEW n \in Nat, NEW i \in 1..n
    PROVE  /\ Extra(e, n, i) \in Int
           /\ 2 * e.valor >= n * n => Extra(e, n, i) >= 0
<1> DEFINE v == e.valor
           m == e.meses
<1>1. /\ v \in Nat /\ m \in Nat /\ m >= 1
      /\ e.modo \in {"unico_inicial", "mensal_continuo", "rateio_meses",
                     "rateio_ciclico"}
    BY DEF ExtraType
<1>2. CASE e.modo = "unico_inicial" \/ e.modo = "mensal_continuo"
    BY <1>1, <1>2 DEF Extra
<1>3. CASE e.modo = "rateio_meses"
    <2> DEFINE months == Least(m, n)
               x == Share(v, Rounded(v, m), months, i)
    <2>1. Extra(e, n, i) = IF i > months THEN 0 ELSE x
        BY <1>3 DEF Extra
    <2> HIDE DEF v, m
    <2>2. months \in Nat /\ months >= 1 /\ months <= m /\ months <= n
          /\ i \in Nat
        BY <1>1 DEF Least
    <2> HIDE DEF months
    <2>3. x \in Int /\ (2 * v >= n * n => x >= 0)
        BY <1>1, <2>2, ShareIs
    <2> HIDE DEF x
    <2>4. /\ Extra(e, n, i) \in Int
          /\ 2 * v >= n * n => Extra(e, n, i) >= 0
        BY <2>1, <2>3
    <2> QED
        BY <2>4 DEF v
<1>4. CASE e.modo = "rateio_ciclico"
    <2> DEFINE start == ((i - 1) \div m) * m
               months == Least(m, n - start)
               k == i - start
               x == Share(v, Rounded(v, months), months, k)
    <2>1. Extra(e, n, i) = x
        BY <1>4 DEF Extra
    <2> HIDE DEF v, m
    <2>2. i - 1 \in Nat
        OBVIOUS
    <2>3. (i - 1) \div m \in Nat /\ start <= i - 1
        BY <1>1, <2>2, DivIs
    <2>4. start \in Nat
        BY <1>1, <2>3
    <2> HIDE DEF start
    <2>5. k \in Nat /\ n - start \in Nat /\ n - start >= 1
        BY <2>3, <2>4
    <2>6. months \in Nat /\ months >= 1 /\ months <= months /\ months <= n
        BY <1>1, <2>4, <2>5 DEF Least
    <2> HIDE DEF months, k
    <2>7. x \in Int /\ (2 * v >= n * n => x >= 0)
        BY <1>1, <2>5, <2>6, ShareIs
    <2> HIDE DEF x
    <2>8. /\ Extra(e, n, i) \in Int
          /\ 2 * v >= n * n => Extra(e, n, i) >= 0
        BY <2>1, <2>7
    <2> QED
        BY <2>8 DEF v
<1> QED
    BY <1>1, <1>2, <1>3, <1>4

LEMMA ExtrasTotal ==
    ASSUME NEW e \in ExtraType, NEW n \in Nat, n >= 1, NEW s,
           s = [i \in 1..n |-> Extra(e, n, i)]
    PROVE  /\ e.modo \in {"rateio_meses", "unico_inicial"} => Total(s) = e.valor
           /\ e.modo = "rateio_ciclico" =>
                 Total(s) = ((n + e.meses - 1) \div e.meses) * e.valor
           /\ 2 * e.valor >= n * n => \A i \in 1..n : s[i] >= 0
<1> DEFINE v == e.valor
           m == e.meses
<1>1. v \in Nat /\ m \in Nat /\ m >= 1
    BY DEF ExtraType
<1>2. \A i \in 1..n : s[i] = Extra(e, n, i)
    OBVIOUS
<1>3. s \in [1..n -> Int]
    BY ExtraIs
<1>4. 2 * v >= n * n => \A i \in 1..n : s[i] >= 0
    BY <1>2, ExtraIs
<1>5. ASSUME e.modo = "unico_inicial" PROVE Total(s) = v
    <2>1. ASSUME NEW i \in 1..n
          PROVE  s[i] = IF i > 1 THEN 0 ELSE Share(v, 0, 1, i)
        <3>1. s[i] = IF i = 1 THEN v ELSE 0
            BY <1>2, <1>5 DEF Extra
        <3>2. Share(v, 0, 1, i) = v
            BY <1>1 DEF Share
        <3> QED
            BY <3>1, <3>2
    <2>2. 1 \in 1..n /\ 0 \in Int
        OBVIOUS
    <2> HIDE DEF v
    <2> QED
        BY <1>1, <1>3, <2>1, <2>2, SpreadTotal
<1>6. ASSUME e.modo = "rateio_meses" PROVE Total(s) = v
    <2> DEFINE months == Least(m, n)
               per == Rounded(v, m)
    <2>1. ASSUME NEW i \in 1..n
          PROVE  s[i] = IF i > months THEN 0 ELSE Share(v, per, months, i)
        BY <1>2, <1>6 DEF Extra
    <2> HIDE DEF v, m
    <2>2. months \in 1..n
        BY <1>1 DEF Least
    <2>3. per \in Int
        BY <1>1, RoundedIsInt
    <2> HIDE DEF months, per
    <2>4. \A i \in 1..n : s[i] = IF i > months THEN 0
                                ELSE Share(v, per, months, i)
        BY <2>1
    <2>5. v \in Nat
        BY <1>1
    <2> QED
        BY <1>3, <2>2, <2>3, <2>4, <2>5, SpreadTotal
<1>7. ASSUME e.modo = "rateio_ciclico"
      PROVE  Total(s) = ((n + m - 1) \div m) * v
    <2>1. ASSUME NEW i \in 1..n
          PROVE  LET q == (i - 1) \div m
                     months == InCycle(n, m, q)
                 IN s[i] = Share(v, Rounded(v, months), months, i - q * m)
        BY <1>2, <1>7 DEF Extra, InCycle
    <2> HIDE DEF v, m
    <2> QED
        BY <1>1, <1>3, <2>1, CyclesTotal
<1> QED
    BY <1>4, <1>5, <1>6, <1>7

\* A cost of calculate_simulation is charged to the cent, however it is spread
\* and whatever the term: see ExtrasAddUp.
THEOREM ExtrasTally == Spec => []ExtrasAddUp
<1>1. SimInv => ExtrasAddUp
    <2> SUFFICES ASSUME SimInv, sim # None PROVE ExtrasAddUp
        BY DEF ExtrasAddUp
    <2> USE PriceAssumption, GrowthAssumption, LoansAssumption
    <2>1. PICK f \in FormType : sim = Computed(f)
        BY SimulationIs
    <2>2. /\ sim.form = f
          /\ sim.extras = [i \in 1..f.prazo |-> Extra(f.extra, f.prazo, i)]
        <3>1. PICK y \in Int : Shows(sim, f, y)
            BY <2>1, ComputedShows
        <3> QED
            BY <3>1 DEF Shows
    <2>3. f.extra \in ExtraType /\ f.prazo \in Nat /\ f.prazo >= 1
        BY DEF FormType, ExtraType
    <2> DEFINE e == f.extra
               n == f.prazo
               s == sim.extras
    <2>4. /\ e.modo \in {"rateio_meses", "unico_inicial"} => Total(s) = e.valor
          /\ e.modo = "rateio_ciclico" =>
                 Total(s) = ((n + e.meses - 1) \div e.meses) * e.valor
          /\ 2 * e.valor >= n * n => \A i \in 1..n : s[i] >= 0
        <3>1. e \in ExtraType /\ n \in Nat /\ n >= 1
              /\ s = [i \in 1..n |-> Extra(e, n, i)]
            BY <2>2, <2>3
        <3> HIDE DEF e, n, s
        <3> QED
            BY <3>1, ExtrasTotal
    <2> QED
        BY <2>2, <2>4 DEF ExtrasAddUp
<1> QED
    BY <1>1, SimInvHolds, PTL

-----------------------------------------------------------------------------
(* Payments on top of the instalments *)

PaymentType == [data: Nat, valor: Nat,
                modo: {"reduzir_parcela", "reduzir_prazo"}]

PlanType == [rows: Seq(RowType), pmt: Int, settled: BOOLEAN]

\* What every plan keeps to: its rows are in the order of their dates, and one
\* that is not settled has some.
InTime(rows) ==
    \A i, j \in 1..Len(rows) : i < j => rows[i].venc < rows[j].venc

Plans ==
    {q \in PlanType :
        /\ InTime(q.rows)
        /\ ~q.settled => Len(q.rows) >= 1}

\* The row from which a payment on data has the rest financed anew.
IsCut(rows, data, at) ==
    /\ at \in 1..Len(rows)
    /\ \A i \in 1..(at - 1) : rows[i].venc < data
    /\ rows[at].venc >= data \/ at = Len(rows)

Cut(rows, data) ==
    LET later == {i \in DOMAIN rows : rows[i].venc >= data} IN
    IF later = {} THEN Len(rows)
    ELSE CHOOSE i \in later : \A j \in later : i <= j

LEMMA CutExists ==
    ASSUME NEW rows \in Seq(RowType), Len(rows) >= 1, NEW data \in Nat
    PROVE  IsCut(rows, data, Cut(rows, data))
<1> DEFINE n == Len(rows)
           later == {i \in DOMAIN rows : rows[i].venc >= data}
           at == Cut(rows, data)
<1>1. DOMAIN rows = 1..n /\ n \in Nat /\ n >= 1
    OBVIOUS
<1>2. \A i \in 1..n : rows[i].venc \in Int
    <2>1. ASSUME NEW i \in 1..n PROVE rows[i].venc \in Int
        <3>1. rows[i] \in RowType
            OBVIOUS
        <3> QED
            BY <3>1, RowFields
    <2> QED
        BY <2>1
<1>3. \A i \in 1..n : i \in later <=> rows[i].venc >= data
    BY <1>1
<1>4. later \in SUBSET Nat /\ later \subseteq 1..n
    BY <1>1
<1>5. at = IF later = {} THEN n ELSE CHOOSE i \in later : \A j \in later : i <= j
    BY DEF Cut
<1> HIDE DEF n, later, at
<1>6. CASE later = {}
    <2>1. at = n /\ \A i \in 1..(at - 1) : i \in 1..n /\ i \notin later
        BY <1>1, <1>5, <1>6
    <2>2. \A i \in 1..(at - 1) : rows[i].venc < data
        BY <1>2, <1>3, <2>1
    <2> QED
        BY <1>1, <2>1, <2>2 DEF IsCut, n, at
<1>7. CASE later # {}
    <2>1. \E i \in later : \A j \in later : i <= j
        BY <1>4, <1>7, NatMin
    <2>2. at \in later /\ \A j \in later : at <= j
        BY <1>5, <1>7, <2>1
    <2>3. \A i \in 1..(at - 1) : i \in 1..n /\ i \notin later
        BY <1>1, <1>4, <2>2
    <2>4. \A i \in 1..(at - 1) : rows[i].venc < data
        BY <1>2, <1>3, <2>3
    <2>5. at \in 1..n /\ rows[at].venc >= data
        BY <1>3, <1>4, <2>2
    <2> QED
        BY <2>4, <2>5 DEF IsCut, n, at
<1> QED
    BY <1>6, <1>7

\* The search for the fewest months ends where the instalment is not higher, or
\* with all that remain.
LEMMA TermExists ==
    ASSUME PriceAssumption, NEW saldo \in Int, NEW r \in Nat,
           Mes \in Nat, Grown(r, Mes), NEW remaining \in Nat, remaining >= 1,
           NEW pmt \in Int
    PROVE  LET k == ShortestTerm(saldo, r, remaining, pmt) IN
           k \in 1..remaining /\ (k = remaining \/ Pmt(saldo, r, k, Mes) <= pmt)
<1> DEFINE short(n) == n = remaining \/ Pmt(saldo, r, n, Mes) <= pmt
           T == {n \in 1..remaining : short(n)}
<1>1. \A n \in 1..remaining : Pmt(saldo, r, n, Mes) \in Int
    <2>1. ASSUME NEW n \in 1..remaining PROVE Pmt(saldo, r, n, Mes) \in Int
        <3>1. n \in Nat /\ n >= 1
            OBVIOUS
        <3> QED
            BY <3>1, PmtIsInt
    <2> QED
        BY <2>1
<1>2. T \in SUBSET Nat /\ T # {}
    <2>1. remaining \in 1..remaining
        OBVIOUS
    <2>2. remaining \in T
        BY <2>1
    <2> QED
        BY <2>2
<1>3. PICK n \in T : \A m \in T : n <= m
    <2> HIDE DEF T
    <2> QED
        BY <1>2, NatMin
<1>4. n \in 1..remaining /\ short(n)
    OBVIOUS
<1>5. \A m \in 1..(n - 1) : m \in 1..remaining /\ m \notin T
    <2> HIDE DEF T
    <2>1. \A m \in 1..(n - 1) : m \in 1..remaining /\ ~(n <= m)
        BY <1>4
    <2> QED
        BY <1>3, <2>1
<1>6. \A m \in 1..(n - 1) : Pmt(saldo, r, m, Mes) > pmt
    BY <1>1, <1>5
<1>7. \E k \in 1..remaining :
        /\ k = remaining \/ Pmt(saldo, r, k, Mes) <= pmt
        /\ \A m \in 1..(k - 1) : Pmt(saldo, r, m, Mes) > pmt
    BY <1>4, <1>6
<1> QED
    BY <1>7 DEF ShortestTerm

\* What a payment does to a plan, with its three outcomes apart.
Refinanced(q, p, r, original, at, next) ==
    \E k \in 1..(Len(q.rows) - at + 1) :
        /\ q.rows[at].anterior - p.valor > 0
        /\ \/ k = Len(q.rows) - at + 1
           \/ Pmt(q.rows[at].anterior - p.valor, r, k, Mes) <= original
        /\ next.rows = SubSeq(q.rows, 1, at - 1)
                         \o Schedule(q.rows[at].anterior - p.valor, r, k, Mes,
                                     q.rows[at].venc)
        /\ next.pmt \in Int /\ next.settled = FALSE

PaidOff(q, p, at, next) ==
    /\ q.rows[at].anterior - p.valor <= 0
    /\ next.rows = SubSeq(q.rows, 1, at - 1)
    /\ next.pmt = q.pmt /\ next.settled = TRUE

LEMMA PaymentDoes ==
    ASSUME PriceAssumption, NEW q \in Plans, ~q.settled, NEW p \in PaymentType,
           NEW r \in Nat, Mes \in Nat, Grown(r, Mes), NEW original \in Int,
           NEW next, next = AfterPayment(q, p, r, original)
    PROVE  /\ next \in [rows: {next.rows}, pmt: {next.pmt},
                        settled: {next.settled}]
           /\ \E at : /\ IsCut(q.rows, p.data, at)
                      /\ \/ Refinanced(q, p, r, original, at, next)
                         \/ PaidOff(q, p, at, next)
<1> DEFINE rows == q.rows
           at == Cut(rows, p.data)
           saldo == rows[at].anterior - p.valor
           remaining == Len(rows) - at + 1
           k == IF p.modo = "reduzir_parcela" THEN remaining
                ELSE ShortestTerm(saldo, r, remaining, original)
           anew == [rows |-> SubSeq(rows, 1, at - 1)
                               \o Schedule(saldo, r, k, Mes, rows[at].venc),
                    pmt |-> IF p.modo = "reduzir_parcela"
                            THEN Pmt(saldo, r, remaining, Mes) ELSE original,
                    settled |-> FALSE]
           off == [rows |-> SubSeq(rows, 1, at - 1), pmt |-> q.pmt,
                   settled |-> TRUE]
<1>1. next = IF saldo <= 0 THEN off ELSE anew
    BY DEF AfterPayment, Cut, Owed
<1>2. /\ q \in PlanType /\ rows \in Seq(RowType) /\ Len(rows) >= 1
    BY DEF Plans, PlanType
<1>3. p.data \in Nat /\ p.valor \in Nat
    BY DEF PaymentType
<1>4. IsCut(rows, p.data, at)
    <2> DEFINE d == p.data
    <2>1. d \in Nat
        BY <1>3
    <2> HIDE DEF d, rows
    <2>2. IsCut(rows, d, Cut(rows, d))
        BY <1>2, <2>1, CutExists
    <2> QED
        BY <2>2 DEF d
<1> HIDE DEF at
<1>5. saldo \in Int /\ remaining \in Nat /\ remaining >= 1
    <2>1. at \in 1..Len(rows) /\ Len(rows) \in Nat
        BY <1>2, <1>4 DEF IsCut
    <2> HIDE DEF rows
    <2>2. rows[at] \in RowType
        BY <1>2, <2>1
    <2>3. rows[at].anterior \in Int
        BY <2>2, RowFields
    <2> QED
        BY <1>3, <2>1, <2>3
<1>6. CASE saldo <= 0
    <2>1. /\ next.rows = SubSeq(rows, 1, at - 1) /\ next.settled = TRUE
          /\ next.pmt = q.pmt
          /\ next = [rows |-> next.rows, pmt |-> next.pmt,
                     settled |-> next.settled]
        <3>1. next = off
            BY <1>1, <1>6
        <3> DEFINE before == SubSeq(rows, 1, at - 1)
        <3> HIDE DEF before
        <3>3. next = [rows |-> before, pmt |-> q.pmt, settled |-> TRUE]
            BY <3>1 DEF before
        <3>4. next.rows = before /\ next.settled = TRUE /\ next.pmt = q.pmt
            BY <3>3
        <3> QED
            BY <3>3, <3>4 DEF before
    <2>2. PaidOff(q, p, at, next)
        BY <1>6, <2>1 DEF PaidOff
    <2> QED
        BY <1>4, <2>1, <2>2
<1>7. CASE ~(saldo <= 0)
    <2>1. /\ k \in 1..remaining /\ Pmt(saldo, r, remaining, Mes) \in Int
          /\ k = remaining \/ Pmt(saldo, r, k, Mes) <= original
        <3> HIDE DEF saldo, remaining
        <3> DEFINE t == ShortestTerm(saldo, r, remaining, original)
        <3>1. t \in 1..remaining /\ (t = remaining \/ Pmt(saldo, r, t, Mes) <= original)
            BY <1>5, TermExists
        <3> HIDE DEF t
        <3>2. Pmt(saldo, r, remaining, Mes) \in Int
            BY <1>5, PmtIsInt
        <3> QED
            BY <1>5, <3>1, <3>2 DEF t
    <2>2. next = anew
        BY <1>1, <1>7
    <2> HIDE DEF k
    <2>3. /\ next.rows = SubSeq(rows, 1, at - 1)
                           \o Schedule(saldo, r, k, Mes, rows[at].venc)
          /\ next.pmt \in Int /\ next.settled = FALSE
          /\ next = [rows |-> next.rows, pmt |-> next.pmt,
                     settled |-> next.settled]
        <3> DEFINE after == SubSeq(rows, 1, at - 1)
                              \o Schedule(saldo, r, k, Mes, rows[at].venc)
                   x == IF p.modo = "reduzir_parcela"
                        THEN Pmt(saldo, r, remaining, Mes) ELSE original
        <3>1. x \in Int
            BY <2>1
        <3>2. next = [rows |-> after, pmt |-> x, settled |-> FALSE]
            BY <2>2
        <3> HIDE DEF after, x
        <3>3. next.rows = after /\ next.pmt = x /\ next.settled = FALSE
            BY <3>2
        <3> QED
            BY <3>1, <3>2, <3>3 DEF after
    <2>4. Refinanced(q, p, r, original, at, next)
        <3>1. saldo > 0
            BY <1>5, <1>7
        <3> QED
            BY <2>1, <2>3, <3>1 DEF Refinanced
    <2> QED
        BY <1>4, <2>3, <2>4
<1> QED
    BY <1>6, <1>7

\* The rows before the cut, and those of the new schedule.
IsSplice(new, rows, at, more) ==
    /\ new \in Seq(RowType) /\ Len(new) = at - 1 + Len(more)
    /\ \A i \in 1..(at - 1) : new[i] = rows[i]
    /\ \A j \in 1..Len(more) : new[at - 1 + j] = more[j]

LEMMA Spliced ==
    ASSUME NEW rows \in Seq(RowType), NEW at \in 1..Len(rows),
           NEW more \in Seq(RowType)
    PROVE  IsSplice(SubSeq(rows, 1, at - 1) \o more, rows, at, more)
<1> DEFINE left == SubSeq(rows, 1, at - 1)
           new == left \o more
<1>1. left \in Seq(RowType) /\ Len(left) = at - 1
      /\ \A i \in 1..(at - 1) : left[i] = rows[i]
    OBVIOUS
<1>2. new = left \o more
    OBVIOUS
<1> HIDE DEF left, new
<1>3. new \in Seq(RowType) /\ Len(new) = Len(left) + Len(more)
    <2>1. left \in Seq(RowType) /\ more \in Seq(RowType)
        BY <1>1
    <2>2. left \o more \in Seq(RowType)
        BY <2>1
    <2>3. Len(left \o more) = Len(left) + Len(more)
        BY <2>1
    <2> QED
        BY <1>2, <2>2, <2>3
<1>4. \A i \in 1..Len(left) : new[i] = left[i]
    BY <1>1, <1>2
<1>5. \A j \in 1..Len(more) : new[Len(left) + j] = more[j]
    <2>1. ASSUME NEW j \in 1..Len(more) PROVE new[Len(left) + j] = more[j]
        <3>1. Len(left) + j \in 1..(Len(left) + Len(more)) /\ Len(left) + j > Len(left)
            BY <1>1
        <3> QED
            BY <1>1, <1>2, <3>1
    <2> QED
        BY <2>1
<1> QED
    BY <1>1, <1>3, <1>4, <1>5 DEF IsSplice, new, left

LEMMA PaymentKeepsPlans ==
    ASSUME PriceAssumption, NEW q \in Plans, NEW p \in PaymentType,
           NEW r \in Nat, Mes \in Nat, Mes >= 1, Grown(r, Mes), NEW original \in Int
    PROVE  AfterPayment(q, p, r, original) \in Plans
<1> DEFINE next == AfterPayment(q, p, r, original)
           rows == q.rows
           n == Len(rows)
           new == next.rows
<1>1. CASE q.settled
    BY <1>1 DEF AfterPayment
<1>2. CASE ~q.settled
    <2>1. /\ next \in [rows: {next.rows}, pmt: {next.pmt},
                       settled: {next.settled}]
          /\ \E at : /\ IsCut(rows, p.data, at)
                     /\ \/ Refinanced(q, p, r, original, at, next)
                        \/ PaidOff(q, p, at, next)
        <3> HIDE DEF next
        <3>1. next = AfterPayment(q, p, r, original)
            BY DEF next
        <3> QED
            BY <1>2, <3>1, PaymentDoes
    <2> HIDE DEF next
    <2>2. PICK at : /\ IsCut(rows, p.data, at)
                    /\ \/ Refinanced(q, p, r, original, at, next)
                       \/ PaidOff(q, p, at, next)
        BY <2>1
    <2>3. /\ rows \in Seq(RowType) /\ n \in Nat /\ at \in 1..n /\ q.pmt \in Int
          /\ \A i, j \in 1..n : i < j => rows[i].venc < rows[j].venc
        BY <2>2 DEF Plans, PlanType, IsCut, InTime
    <2>4. p.valor \in Nat
        BY DEF PaymentType
    <2>5. CASE PaidOff(q, p, at, next)
        <3>1. /\ new = SubSeq(rows, 1, at - 1) /\ next.pmt = q.pmt
              /\ next.settled = TRUE
            BY <2>5 DEF PaidOff
        <3> HIDE DEF rows, n, new
        <3>2. /\ new \in Seq(RowType) /\ Len(new) = at - 1
              /\ \A i \in 1..(at - 1) : new[i] = rows[i]
            BY <2>3, <3>1 DEF n
        <3>3. ASSUME NEW i \in 1..Len(new), NEW j \in 1..Len(new), i < j
              PROVE  new[i].venc < new[j].venc
            <4>1. i \in 1..(at - 1) /\ j \in 1..(at - 1) /\ i \in 1..n /\ j \in 1..n
                BY <2>3, <3>2
            <4>2. rows[i].venc < rows[j].venc
                BY <2>3, <3>3, <4>1
            <4> QED
                BY <3>2, <4>1, <4>2
        <3>4. next \in PlanType
            BY <2>1, <2>3, <3>1, <3>2 DEF PlanType, new
        <3>5. InTime(next.rows)
            BY <3>3 DEF InTime, new
        <3>6. ~next.settled => Len(next.rows) >= 1
            BY <3>1
        <3>7. next \in Plans
            BY <3>4, <3>5, <3>6 DEF Plans
        <3> QED
            BY <3>7 DEF next
    <2>6. CASE Refinanced(q, p, r, original, at, next)
        <3>1. PICK k \in 1..(n - at + 1) :
                 /\ new = SubSeq(rows, 1, at - 1)
                            \o Schedule(rows[at].anterior - p.valor, r, k, Mes,
                                        rows[at].venc)
                 /\ next.pmt \in Int /\ next.settled = FALSE
            BY <2>6 DEF Refinanced
        <3> DEFINE saldo == rows[at].anterior - p.valor
                   start == rows[at].venc
                   more == Schedule(saldo, r, k, Mes, start)
        <3>2. saldo \in Int /\ start \in Int /\ k \in Nat /\ k >= 1
            <4>1. rows[at] \in RowType
                BY <2>3
            <4> HIDE DEF rows, n
            <4>2. rows[at].anterior \in Int /\ rows[at].venc \in Int
                BY <4>1, RowFields
            <4> QED
                BY <2>3, <2>4, <4>2
        <3>3. Monthly(more, saldo, k, Mes, start)
            <4> HIDE DEF saldo, start
            <4> QED
                BY <3>2, ScheduleIsMonthly
        <3>4. new = SubSeq(rows, 1, at - 1) \o more
            BY <3>1
        <3> HIDE DEF more, saldo, rows, n, new
        <3>5. /\ more \in Seq(RowType) /\ Len(more) = k
              /\ \A j \in 1..k : more[j].venc = start + Mes + (j - 1) * Mes
            BY <3>3 DEF Monthly, Chain
        <3>6. /\ new \in Seq(RowType) /\ Len(new) = at - 1 + k
              /\ \A i \in 1..(at - 1) : new[i] = rows[i]
              /\ \A j \in 1..k : new[at - 1 + j] = more[j]
            <4>1. IsSplice(new, rows, at, more)
                BY <2>3, <3>4, <3>5, Spliced DEF n
            <4> QED
                BY <3>5, <4>1 DEF IsSplice
        <3>7. \A i \in 1..(at - 1) : new[i].venc < start /\ new[i].venc \in Int
            <4>1. ASSUME NEW i \in 1..(at - 1)
                  PROVE  new[i].venc < start /\ new[i].venc \in Int
                <5>1. i \in 1..n /\ i < at
                    BY <2>3
                <5>2. rows[i] \in RowType
                    BY <2>3, <5>1 DEF n
                <5>3. rows[i].venc \in Int
                    BY <5>2, RowFields
                <5> QED
                    BY <2>3, <3>6, <5>1, <5>3
            <4> QED
                BY <4>1
        <3>8. \A i \in at..(at - 1 + k) :
                 new[i].venc = start + Mes + (i - at) * Mes
            <4>1. ASSUME NEW i \in at..(at - 1 + k)
                  PROVE  new[i].venc = start + Mes + (i - at) * Mes
                <5> DEFINE j == i - at + 1
                <5>1. j \in 1..k /\ i = at - 1 + j /\ j - 1 = i - at
                    BY <2>3, <3>2
                <5> HIDE DEF j
                <5>2. new[i] = more[j]
                    BY <3>6, <5>1
                <5>3. more[j].venc = start + Mes + (j - 1) * Mes
                    BY <3>5, <5>1
                <5> QED
                    BY <5>1, <5>2, <5>3
            <4> QED
                BY <4>1
        <3>9. ASSUME NEW i \in 1..Len(new), NEW j \in 1..Len(new), i < j
              PROVE  new[i].venc < new[j].venc
            <4> HIDE DEF start
            <4>1. CASE j < at
                <5>1. i \in 1..n /\ j \in 1..n /\ i \in 1..(at - 1)
                      /\ j \in 1..(at - 1)
                    BY <2>3, <3>9, <4>1
                <5> QED
                    BY <2>3, <3>6, <3>9, <5>1
            <4>2. CASE i < at /\ j >= at
                <5>1. i \in 1..(at - 1) /\ j \in at..(at - 1 + k)
                    BY <2>3, <3>2, <3>6, <4>2
                <5>2. new[i].venc < start /\ new[i].venc \in Int
                      /\ new[j].venc = start + Mes + (j - at) * Mes
                    BY <3>7, <3>8, <5>1
                <5> DEFINE z == (j - at) * Mes
                <5>3. 0 * Mes <= z /\ 0 * Mes = 0 /\ z \in Int
                    <6>1. j - at \in Int /\ 0 <= j - at
                        BY <2>3, <4>2
                    <6> QED
                        BY <6>1, Scaled
                <5> HIDE DEF z
                <5> QED
                    BY <3>2, <5>2, <5>3 DEF z
            <4>3. CASE i >= at
                <5>1. i \in at..(at - 1 + k) /\ j \in at..(at - 1 + k)
                    BY <2>3, <3>2, <3>6, <3>9, <4>3
                <5>2. /\ new[i].venc = start + Mes + (i - at) * Mes
                      /\ new[j].venc = start + Mes + (j - at) * Mes
                    BY <3>8, <5>1
                <5>2a. i - at \in Int /\ j - at \in Int /\ (i - at) + 1 <= j - at
                    <6>1. i \in Int /\ j \in Int /\ at \in Int
                        BY <2>3, <5>1
                    <6> QED
                        BY <3>9, <6>1
                <5> DEFINE x == (i - at) * Mes
                           z == (j - at) * Mes
                <5>3. x < z /\ x \in Int /\ z \in Int
                    <6>1. ((i - at) + 1) * Mes <= (j - at) * Mes
                        BY <5>2a, Scaled
                    <6>2. ((i - at) + 1) * Mes = x + Mes /\ x \in Int /\ z \in Int
                        BY <5>2a, OneMore
                    <6> QED
                        BY <6>1, <6>2
                <5> HIDE DEF x, z
                <5> QED
                    BY <3>2, <5>2, <5>3 DEF x, z
            <4> QED
                BY <2>3, <3>2, <3>6, <3>9, <4>1, <4>2, <4>3
        <3>10. next \in PlanType
            BY <2>1, <3>1, <3>6 DEF PlanType, new
        <3>11. Len(new) >= 1
            BY <2>3, <3>2, <3>6
        <3>12. InTime(next.rows)
            BY <3>9 DEF InTime, new
        <3>13. ~next.settled => Len(next.rows) >= 1
            BY <3>11 DEF new
        <3>14. next \in Plans
            BY <3>10, <3>12, <3>13 DEF Plans
        <3> QED
            BY <3>14 DEF next
    <2> QED
        BY <2>2, <2>5, <2>6 DEF next
<1> QED
    BY <1>1, <1>2

\* After payments of t in all, the last of them on d: what the rows repay and
\* the payments make up base, and a row that is due on d or later starts from
\* what it and the rows after it repay.
Anchored(q, d, t, base) ==
    IF q.settled THEN Repaid(q.rows) + t >= base
    ELSE \E g \in [0..Len(q.rows) -> Int] :
            /\ Sums(Column(q.rows, "amort"), g)
            /\ g[Len(q.rows)] + t = base
            /\ q.rows[Len(q.rows)].saldo = 0
            /\ \A i \in 1..Len(q.rows) :
                  q.rows[i].venc >= d \/ i = Len(q.rows) =>
                      q.rows[i].anterior = g[Len(q.rows)] - g[i - 1]

LEMMA RepaidIsInt ==
    ASSUME NEW rows \in Seq(RowType)
    PROVE  Repaid(rows) \in Int
<1>1. Column(rows, "amort") \in Seq(Int)
    BY ColumnIsSeq
<1> QED
    BY <1>1, TotalIsInt DEF Repaid

\* A payment on d or later is taken off what the rows repay.
LEMMA PaymentCounts ==
    ASSUME PriceAssumption, NEW q \in Plans, NEW p \in PaymentType,
           NEW r \in Nat, Mes \in Nat, Grown(r, Mes), NEW original \in Int,
           NEW d \in Nat, NEW t \in Int,
           NEW base \in Int, Anchored(q, d, t, base), d <= p.data
    PROVE  Anchored(AfterPayment(q, p, r, original), p.data, t + p.valor, base)
<1> DEFINE next == AfterPayment(q, p, r, original)
           rows == q.rows
           n == Len(rows)
           new == next.rows
<1>1. p.valor \in Nat /\ p.data \in Nat
    BY DEF PaymentType
<1>2. CASE q.settled
    <2>1. next = q
        BY <1>2 DEF AfterPayment
    <2>2. Repaid(rows) \in Int /\ Repaid(rows) + t >= base
        <3>1. rows \in Seq(RowType)
            BY DEF Plans, PlanType
        <3> QED
            BY <1>2, <3>1, RepaidIsInt DEF Anchored
    <2>3. Repaid(rows) + (t + p.valor) >= base
        BY <1>1, <2>2
    <2>4. Anchored(q, p.data, t + p.valor, base)
        BY <1>2, <2>3 DEF Anchored
    <2> QED
        BY <2>1, <2>4
<1>3. CASE ~q.settled
    <2>1. \E at : /\ IsCut(rows, p.data, at)
                  /\ \/ Refinanced(q, p, r, original, at, next)
                     \/ PaidOff(q, p, at, next)
        <3> HIDE DEF next
        <3>1. next = AfterPayment(q, p, r, original)
            BY DEF next
        <3> QED
            BY <1>3, <3>1, PaymentDoes
    <2> HIDE DEF next
    <2>2. PICK at : /\ IsCut(rows, p.data, at)
                    /\ \/ Refinanced(q, p, r, original, at, next)
                       \/ PaidOff(q, p, at, next)
        BY <2>1
    <2>3. PICK g \in [0..n -> Int] :
            /\ Sums(Column(rows, "amort"), g)
            /\ g[n] + t = base
            /\ rows[n].saldo = 0
            /\ \A i \in 1..n : rows[i].venc >= d \/ i = n =>
                                   rows[i].anterior = g[n] - g[i - 1]
        BY <1>3 DEF Anchored
    <2>4. /\ rows \in Seq(RowType) /\ n \in Nat /\ at \in 1..n
          /\ rows[at].venc >= p.data \/ at = n
          /\ \A i \in 1..(at - 1) : rows[i].venc < p.data
        <3>1. rows \in Seq(RowType) /\ n \in Nat
            BY DEF Plans, PlanType
        <3>2. /\ at \in 1..n
              /\ rows[at].venc >= p.data \/ at = n
              /\ \A i \in 1..(at - 1) : rows[i].venc < p.data
            BY <2>2 DEF IsCut
        <3> QED
            BY <3>1, <3>2
    <2>5. rows[at].anterior \in Int /\ rows[at].venc \in Int
        <3>1. rows[at] \in RowType
            BY <2>4
        <3> QED
            BY <3>1, RowFields
    <2>6. /\ rows[at].anterior = g[n] - g[at - 1]
          /\ g[n] \in Int /\ g[at - 1] \in Int
        <3>1. rows[at].venc >= d \/ at = n
            BY <1>1, <2>4, <2>5
        <3>2. n \in 0..n /\ at - 1 \in 0..n
            BY <2>4
        <3> HIDE DEF rows, n
        <3> QED
            BY <2>3, <2>4, <3>1, <3>2
    <2>7. /\ Column(rows, "amort") \in Seq(Int) /\ Len(Column(rows, "amort")) = n
          /\ \A i \in 1..n : Column(rows, "amort")[i] = rows[i].amort
        BY <2>4, ColumnIsSeq
    <2>8. /\ g[0] = 0
          /\ \A i \in 1..n : g[i] = g[i - 1] + rows[i].amort
        BY <2>3, <2>7 DEF Sums
    <2>9. CASE PaidOff(q, p, at, next)
        <3>1. /\ rows[at].anterior - p.valor <= 0
              /\ new = SubSeq(rows, 1, at - 1) /\ next.settled = TRUE
            BY <2>9 DEF PaidOff
        <3> HIDE DEF rows, n, new
        <3>2. /\ new \in Seq(RowType) /\ Len(new) = at - 1
              /\ \A i \in 1..(at - 1) : new[i] = rows[i]
            BY <2>4, <3>1 DEF n
        <3>3. /\ Column(new, "amort") \in Seq(Int)
              /\ Len(Column(new, "amort")) = at - 1
              /\ \A i \in 1..(at - 1) : Column(new, "amort")[i] = new[i].amort
            BY <3>2, ColumnIsSeq
        <3>4. Sums(Column(new, "amort"), g)
            <4>1. \A i \in 1..(at - 1) : i \in 1..n
                BY <2>4
            <4> QED
                BY <2>8, <3>2, <3>3, <4>1 DEF Sums
        <3>5. Repaid(new) = g[at - 1]
            BY <3>3, <3>4, TotalIs DEF Repaid
        <3>6. Repaid(new) + (t + p.valor) >= base
            BY <1>1, <2>3, <2>6, <3>1, <3>5
        <3>7. Anchored(next, p.data, t + p.valor, base)
            BY <3>1, <3>6 DEF Anchored, new
        <3> QED
            BY <3>7 DEF next
    <2>10. CASE Refinanced(q, p, r, original, at, next)
        <3>1. PICK k \in 1..(n - at + 1) :
                 /\ new = SubSeq(rows, 1, at - 1)
                            \o Schedule(rows[at].anterior - p.valor, r, k, Mes,
                                        rows[at].venc)
                 /\ next.pmt \in Int /\ next.settled = FALSE
            BY <2>10 DEF Refinanced
        <3> DEFINE saldo == rows[at].anterior - p.valor
                   start == rows[at].venc
                   more == Schedule(saldo, r, k, Mes, start)
        <3>2. saldo \in Int /\ start \in Int /\ k \in Nat /\ k >= 1
              /\ at \in Nat /\ at >= 1
            <4> HIDE DEF rows, n, more
            <4>1. saldo \in Int /\ start \in Int
                BY <1>1, <2>5
            <4>2. k \in Nat /\ k >= 1 /\ at \in Nat /\ at >= 1
                BY <2>4
            <4> QED
                BY <4>1, <4>2
        <3>3. Monthly(more, saldo, k, Mes, start)
            <4> HIDE DEF saldo, start
            <4> QED
                BY <3>2, ScheduleIsMonthly
        <3>4. new = SubSeq(rows, 1, at - 1) \o more
            BY <3>1
        <3>5. saldo = g[n] - g[at - 1] - p.valor
            BY <2>6
        <3> HIDE DEF more, saldo, start, rows, n, new
        <3>6. Chain(more, saldo) /\ Len(more) = k /\ more \in Seq(RowType)
              /\ more[k].saldo = 0
            BY <3>3 DEF Monthly, Chain
        <3>7. /\ new \in Seq(RowType) /\ Len(new) = at - 1 + k
              /\ \A i \in 1..(at - 1) : new[i] = rows[i]
              /\ \A j \in 1..k : new[at - 1 + j] = more[j]
            <4>1. IsSplice(new, rows, at, more)
                BY <2>4, <3>4, <3>6, Spliced DEF n
            <4> QED
                BY <3>6, <4>1 DEF IsSplice
        <3>8. PICK h : Repays(more, saldo, h)
            BY <3>2, <3>6, ChainSums
        <3>9. /\ h \in [0..k -> Int]
               /\ Sums(Column(more, "amort"), h) /\ h[k] = saldo
               /\ \A j \in 1..k : more[j].anterior = saldo - h[j - 1]
            BY <3>6, <3>8 DEF Repays
        <3>10. h[0] = 0 /\ \A j \in 1..k : h[j] = h[j - 1] + more[j].amort
            <4>1. /\ Len(Column(more, "amort")) = k
                  /\ \A j \in 1..k : Column(more, "amort")[j] = more[j].amort
                BY <3>6, ColumnIsSeq
            <4> QED
                BY <3>9, <4>1 DEF Sums
        <3> DEFINE m == at - 1 + k
                   f == [i \in 0..m |-> IF i < at THEN g[i]
                                        ELSE g[at - 1] + h[i - at + 1]]
        <3>11. m \in Nat /\ m >= at
            BY <3>2
        <3>12. \A i \in 0..m : f[i] = IF i < at THEN g[i]
                                      ELSE g[at - 1] + h[i - at + 1]
            OBVIOUS
        <3>13. f \in [0..m -> Int]
            <4>1. ASSUME NEW i \in 0..m
                  PROVE  (IF i < at THEN g[i] ELSE g[at - 1] + h[i - at + 1])
                            \in Int
                <5>1. i < at => i \in 0..n
                    BY <2>4
                <5>2. ~(i < at) => i - at + 1 \in 0..k
                    BY <3>2
                <5>3. i < at => g[i] \in Int
                    BY <2>3, <5>1
                <5>4. ~(i < at) => h[i - at + 1] \in Int
                    BY <3>9, <5>2
                <5> QED
                    BY <2>6, <5>3, <5>4
            <4> QED
                BY <4>1
        <3> HIDE DEF f
        \* The two halves meet at the cut.
        <3>14. \A j \in 0..k : f[at - 1 + j] = g[at - 1] + h[j]
            <4>1. ASSUME NEW j \in 0..k
                  PROVE  f[at - 1 + j] = g[at - 1] + h[j]
                <5>1. at - 1 + j \in 0..m
                    BY <3>2
                <5>2. CASE j = 0
                    BY <2>6, <3>2, <3>10, <3>12, <5>1, <5>2
                <5>3. CASE j # 0
                    <6>1. ~(at - 1 + j < at) /\ (at - 1 + j) - at + 1 = j
                        BY <3>2, <5>3
                    <6> QED
                        BY <3>12, <5>1, <6>1
                <5> QED
                    BY <5>2, <5>3
            <4> QED
                BY <4>1
        <3>15. \A i \in 0..(at - 1) : f[i] = g[i]
            <4>1. \A i \in 0..(at - 1) : i \in 0..m /\ i < at
                BY <3>2
            <4> QED
                BY <3>12, <4>1
        <3> HIDE DEF m
        <3>16. ASSUME NEW i \in 1..m PROVE f[i] = f[i - 1] + new[i].amort
            <4>1. CASE i < at
                <5>1. /\ i \in 1..n /\ i \in 0..(at - 1)
                      /\ i - 1 \in 0..(at - 1) /\ i \in 1..(at - 1)
                    <6>1. i \in Nat /\ i >= 1 /\ i <= at - 1
                        BY <3>2, <3>11, <4>1
                    <6>2. at <= n /\ n \in Nat
                        BY <2>4
                    <6> QED
                        BY <3>2, <6>1, <6>2
                <5> QED
                    BY <2>8, <3>7, <3>15, <5>1
            <4>2. CASE i >= at
                <5> DEFINE j == i - at + 1
                <5>1. j \in 1..k /\ j \in 0..k /\ j - 1 \in 0..k
                      /\ i = at - 1 + j /\ i - 1 = at - 1 + (j - 1)
                    BY <3>2, <4>2 DEF m
                <5> HIDE DEF j
                <5>2. f[i] = g[at - 1] + h[j] /\ f[i - 1] = g[at - 1] + h[j - 1]
                    BY <3>14, <5>1
                <5>3. new[i] = more[j] /\ h[j] = h[j - 1] + more[j].amort
                    BY <3>7, <3>10, <5>1
                <5>4. more[j].amort \in Int /\ h[j - 1] \in Int
                    <6>1. more[j] \in RowType
                        BY <3>6, <5>1
                    <6> QED
                        BY <3>9, <5>1, <6>1, RowFields
                <5>5. new[i].amort = more[j].amort
                    BY <5>3
                <5> DEFINE A == g[at - 1]
                           B == h[j - 1]
                           C == more[j].amort
                <5>6. A \in Int /\ B \in Int /\ C \in Int
                      /\ f[i] = A + (B + C) /\ f[i - 1] = A + B
                      /\ new[i].amort = C
                    BY <2>6, <5>2, <5>3, <5>4, <5>5
                <5> HIDE DEF A, B, C
                <5> QED
                    BY <5>6
            <4> QED
                BY <3>2, <4>1, <4>2
        <3>17. Sums(Column(new, "amort"), f)
            <4>1. /\ Len(Column(new, "amort")) = m
                  /\ \A i \in 1..m : Column(new, "amort")[i] = new[i].amort
                BY <3>7, ColumnIsSeq DEF m
            <4>2. f[0] = 0
                <5>1. 0 \in 0..(at - 1)
                    BY <3>2
                <5> QED
                    BY <2>8, <3>15, <5>1
            <4> QED
                BY <3>16, <4>1, <4>2 DEF Sums
        <3>18. f[m] = g[at - 1] + saldo
            <4>1. k \in 0..k /\ m = at - 1 + k /\ h[k] = saldo
                BY <3>2, <3>9 DEF m
            <4> QED
                BY <3>14, <4>1
        <3>19. f[m] + (t + p.valor) = base
            <4> DEFINE A == g[at - 1]
                       B == g[n]
                       V == p.valor
            <4>1. A \in Int /\ B \in Int /\ V \in Int /\ B + t = base
                  /\ saldo = B - A - V /\ f[m] = A + saldo
                BY <1>1, <2>3, <2>6, <3>5, <3>18
            <4> HIDE DEF A, B, V
            <4>2. f[m] + (t + V) = base
                BY <4>1
            <4> QED
                BY <4>2 DEF V
        <3>20. new[m].saldo = 0
            <4>1. k \in 1..k
                BY <3>2
            <4> QED
                BY <3>6, <3>7, <4>1 DEF m
        <3>21. ASSUME NEW i \in 1..m, new[i].venc >= p.data \/ i = m
               PROVE  new[i].anterior = f[m] - f[i - 1]
            <4>1. i >= at
                <5> SUFFICES ASSUME i < at PROVE FALSE
                    BY <3>2
                <5>1. i \in 1..(at - 1) /\ i # m /\ i \in 1..n
                    BY <2>4, <3>11
                <5>2. new[i] = rows[i] /\ rows[i].venc < p.data
                    BY <2>4, <3>7, <5>1
                <5>3. rows[i].venc \in Int
                    <6>1. rows[i] \in RowType
                        BY <2>4, <5>1 DEF n
                    <6> QED
                        BY <6>1, RowFields
                <5> QED
                    BY <1>1, <3>21, <5>1, <5>2, <5>3
            <4> DEFINE j == i - at + 1
            <4>2. j \in 1..k /\ j - 1 \in 0..k
                  /\ i = at - 1 + j /\ i - 1 = at - 1 + (j - 1)
                BY <3>2, <4>1 DEF m
            <4> HIDE DEF j
            <4>3. f[i - 1] = g[at - 1] + h[j - 1] /\ h[j - 1] \in Int
                BY <3>9, <3>14, <4>2
            <4>4. new[i].anterior = saldo - h[j - 1]
                BY <3>7, <3>9, <4>2
            <4> DEFINE A == g[at - 1]
                       B == h[j - 1]
            <4>5. A \in Int /\ B \in Int /\ saldo \in Int /\ f[m] = A + saldo
                  /\ f[i - 1] = A + B /\ new[i].anterior = saldo - B
                BY <2>6, <3>2, <3>18, <4>3, <4>4
            <4> HIDE DEF A, B
            <4> QED
                BY <4>5
        <3>22. Anchored(next, p.data, t + p.valor, base)
            <4>1. Len(new) = m
                BY <3>7 DEF m
            <4>2. \E e \in [0..Len(new) -> Int] :
                    /\ Sums(Column(new, "amort"), e)
                    /\ e[Len(new)] + (t + p.valor) = base
                    /\ new[Len(new)].saldo = 0
                    /\ \A i \in 1..Len(new) :
                          new[i].venc >= p.data \/ i = Len(new) =>
                              new[i].anterior = e[Len(new)] - e[i - 1]
                BY <3>13, <3>17, <3>19, <3>20, <3>21, <4>1
            <4> QED
                BY <3>1, <4>2 DEF Anchored, new
        <3> QED
            BY <3>22 DEF next
    <2> QED
        BY <2>2, <2>9, <2>10
<1> QED
    BY <1>2, <1>3

\* The plans that the payments lead through.
Leads(a, plan0, payments, r) ==
    /\ a \in [0..Len(payments) -> Plans] /\ a[0] = plan0
    /\ \A k \in 1..Len(payments) :
          a[k] = AfterPayment(a[k - 1], payments[k], r, plan0.pmt)

LEMMA AfterPaymentsAre ==
    ASSUME PriceAssumption, NEW plan0 \in Plans,
           NEW payments \in Seq(PaymentType),
           NEW r \in Nat, Mes \in Nat, Mes >= 1, Grown(r, Mes)
    PROVE  \E a : /\ Leads(a, plan0, payments, r)
                  /\ AfterPayments(plan0, payments, r) = a[Len(payments)]
<1> DEFINE n == Len(payments)
           R(k, x) == AfterPayment(x, payments[k], r, plan0.pmt)
           step == [k \in 1..n |-> [x \in Plans |-> R(k, x)]]
           after == CHOOSE f : f = [k \in 0..n |->
                        IF k = 0 THEN plan0 ELSE R(k, f[k - 1])]
<1>1. AfterPayments(plan0, payments, r) = after[n]
    BY DEF AfterPayments
<1>2. n \in Nat /\ \A k \in 1..n : payments[k] \in PaymentType
    OBVIOUS
<1>3. plan0.pmt \in Int
    BY DEF Plans, PlanType
<1>4. \A k \in 1..n : \A x \in Plans : R(k, x) \in Plans
    <2> SUFFICES ASSUME NEW k \in 1..n, NEW x \in Plans PROVE R(k, x) \in Plans
        OBVIOUS
    <2> DEFINE p == payments[k]
               pmt == plan0.pmt
    <2>1. p \in PaymentType /\ pmt \in Int
        BY <1>2, <1>3
    <2> HIDE DEF p, pmt
    <2>2. AfterPayment(x, p, r, pmt) \in Plans
        BY <2>1, PaymentKeepsPlans
    <2> QED
        BY <2>2 DEF p, pmt
<1> HIDE DEF R, n
<1>5. /\ step \in [1..n -> [Plans -> Plans]]
      /\ \A k \in 1..n : \A x \in Plans : step[k][x] = R(k, x)
    BY <1>4
<1> HIDE DEF step
<1>6. PICK f : f \in [0..n -> Plans] /\ Iterates(f, plan0, n, step)
    BY <1>2, <1>5, IteratesExist
<1>7. \A k \in 0..n : f[k] = IF k = 0 THEN plan0 ELSE R(k, f[k - 1])
    <2>1. \A k \in 1..n : k - 1 \in 0..n /\ f[k - 1] \in Plans
        BY <1>2, <1>6
    <2>2. \A k \in 0..n : k = 0 \/ k \in 1..n
        BY <1>2
    <2> QED
        BY <1>5, <1>6, <2>1, <2>2 DEF Iterates
<1>8. f = [k \in 0..n |-> IF k = 0 THEN plan0 ELSE R(k, f[k - 1])]
    BY <1>6, <1>7
<1>9. after = [k \in 0..n |-> IF k = 0 THEN plan0 ELSE R(k, after[k - 1])]
    BY <1>8
<1> HIDE DEF after
<1>10. after[0] = plan0 /\ \A k \in 1..n : after[k] = R(k, after[k - 1])
    <2>1. \A k \in 0..n :
             after[k] = IF k = 0 THEN plan0 ELSE R(k, after[k - 1])
        BY <1>9
    <2>2. 0 \in 0..n /\ \A k \in 1..n : k \in 0..n /\ k # 0
        BY <1>2
    <2> QED
        BY <2>1, <2>2
<1>11. after \in [0..n -> Plans]
    <2> DEFINE Q == {k \in 0..n : after[k] \in Plans}
    <2>1. 0 \in Q /\ Q \in SUBSET (0..n)
        BY <1>2, <1>10
    <2>2. \A k \in 1..n : k - 1 \in Q => k \in Q
        BY <1>2, <1>4, <1>10
    <2> HIDE DEF Q
    <2>3. Q = 0..n
        BY <1>2, <2>1, <2>2, UpTo
    <2>4. \A k \in 0..n : after[k] \in Plans
        BY <2>3 DEF Q
    <2> QED
        BY <1>9, <2>4
<1>12. Leads(after, plan0, payments, r)
    BY <1>10, <1>11 DEF Leads, n, R
<1> QED
    BY <1>1, <1>12 DEF n

LEMMA PaymentsAddUp ==
    ASSUME PriceAssumption, NEW plan0 \in Plans,
           NEW payments \in Seq(PaymentType), InOrder(payments),
           NEW r \in Nat, Mes \in Nat, Mes >= 1, Grown(r, Mes),
           NEW base \in Int, Anchored(plan0, 0, 0, base)
    PROVE  \E d \in Nat :
              Anchored(AfterPayments(plan0, payments, r), d,
                       Total(Column(payments, "valor")), base)
<1> DEFINE n == Len(payments)
           s == Column(payments, "valor")
<1>1. PICK a : /\ Leads(a, plan0, payments, r)
               /\ AfterPayments(plan0, payments, r) = a[n]
    BY AfterPaymentsAre
<1>2. /\ n \in Nat /\ plan0.pmt \in Int
      /\ \A k \in 1..n : /\ payments[k] \in PaymentType
                         /\ payments[k].data \in Nat /\ payments[k].valor \in Nat
    <2>1. \A x \in PaymentType : x.data \in Nat /\ x.valor \in Nat
        BY DEF PaymentType
    <2>2. plan0.pmt \in Int
        BY DEF Plans, PlanType
    <2> QED
        BY <2>1, <2>2
<1>3. s \in Seq(Int) /\ Len(s) = n /\ \A k \in 1..n : s[k] = payments[k].valor
    <2>1. s = [k \in 1..n |-> payments[k].valor]
        BY DEF Column
    <2>2. s \in [1..n -> Int]
        BY <1>2, <2>1
    <2> QED
        BY <1>2, <2>1, <2>2
<1>4. PICK t \in [0..n -> Int] : Sums(s, t) /\ Total(s) = t[n]
    BY <1>3, SumsExist
<1> HIDE DEF s
<1>5. t[0] = 0 /\ \A k \in 1..n : t[k] = t[k - 1] + payments[k].valor
    BY <1>3, <1>4 DEF Sums
<1> DEFINE d(k) == IF k = 0 THEN 0 ELSE payments[k].data
           Q == {k \in 0..n : Anchored(a[k], d(k), t[k], base)}
<1>6. 0 \in Q /\ Q \in SUBSET (0..n)
    BY <1>1, <1>2, <1>5 DEF Leads
<1>7. \A k \in 1..n : d(k - 1) \in Nat /\ d(k - 1) <= d(k)
    <2> SUFFICES ASSUME NEW k \in 1..n
                 PROVE  d(k - 1) \in Nat /\ d(k - 1) <= d(k)
        OBVIOUS
    <2>1. k # 0 /\ payments[k].data \in Nat
        BY <1>2
    <2>2. CASE k = 1
        BY <2>1, <2>2
    <2>3. CASE k # 1
        <3>1. k - 1 \in 1..n /\ k - 1 # 0 /\ k - 1 <= k
            BY <1>2, <2>3
        <3>2. payments[k - 1].data <= payments[k].data
            BY <3>1 DEF InOrder
        <3> QED
            BY <1>2, <2>1, <3>1, <3>2
    <2> QED
        BY <2>2, <2>3
<1>8. ASSUME NEW k \in 1..n, k - 1 \in Q PROVE k \in Q
    <2> DEFINE q == a[k - 1]
               p == payments[k]
               pmt == plan0.pmt
               e == d(k - 1)
               x == t[k - 1]
    <2>1. k - 1 \in 0..n /\ k \in 0..n /\ k # 0
        BY <1>2
    <2>2. q \in Plans /\ a[k] = AfterPayment(q, p, r, pmt)
        BY <1>1, <2>1 DEF Leads
    <2>3. /\ p \in PaymentType /\ pmt \in Int /\ e \in Nat /\ e <= p.data
          /\ x \in Int
        BY <1>2, <1>4, <1>7, <2>1
    <2>4. Anchored(q, e, x, base)
        BY <1>8
    <2> HIDE DEF q, p, pmt, e, x
    <2>5. Anchored(AfterPayment(q, p, r, pmt), p.data, x + p.valor, base)
        BY <2>2, <2>3, <2>4, PaymentCounts
    <2>6. t[k] = x + p.valor /\ d(k) = p.data
        BY <1>5, <2>1 DEF x, p
    <2> QED
        BY <2>1, <2>2, <2>5, <2>6
<1> HIDE DEF Q
<1>9. Q = 0..n
    BY <1>2, <1>6, <1>8, UpTo
<1>10. n \in 0..n
    BY <1>2
<1>11. Anchored(a[n], d(n), t[n], base)
    BY <1>9, <1>10 DEF Q
<1>12. d(n) \in Nat
    BY <1>2
<1> QED
    BY <1>1, <1>4, <1>11, <1>12 DEF s

\* From row b on the rows are a schedule, and neither its instalment nor a row
\* before b, all of them due before d, is above pmt.
Ends(rows, d, pmt, r, b, y, c, start) ==
    LET m == Len(rows) - b + 1 IN
    /\ \A i \in 1..(b - 1) : rows[i].venc < d /\ rows[i].parcela <= pmt
    /\ Pmt(y, r, m, c) <= pmt
    /\ \A i \in 1..m : rows[b - 1 + i] = Schedule(y, r, m, c, start)[i]

\* After payments the last of which was on d: the plan is no longer than n, and
\* ends in such a schedule, which began with a month of grace or had its first
\* instalment before d, or is paid off.
Keeps(q, d, n, pmt, r) ==
    /\ Len(q.rows) <= n
    /\ IF q.settled THEN \A i \in 1..Len(q.rows) : q.rows[i].parcela <= pmt
       ELSE \E b \in 1..Len(q.rows), y \in Int, c \in Nat, start \in Int :
              /\ Ends(q.rows, d, pmt, r, b, y, c, start)
              /\ Grown(r, c)
              /\ AMonth(r, c) \/ (b < Len(q.rows) /\ q.rows[b].venc < d)

LEMMA PaymentHelps ==
    ASSUME PriceAssumption, GrowthAssumption, NEW q \in Plans,
           NEW p \in PaymentType, NEW r \in Taxas, r \in Nat,
           NEW original \in Int, NEW d \in Nat, d <= p.data,
           NEW n \in Nat, Outweighs(p.valor, r, n), Keeps(q, d, n, original, r)
    PROVE  Keeps(AfterPayment(q, p, r, original), p.data, n, original, r)
<1> DEFINE next == AfterPayment(q, p, r, original)
           rows == q.rows
           l == Len(rows)
           new == next.rows
           x == p.valor
           e == p.data
<1>1. x \in Int /\ e \in Int /\ Mes \in Nat /\ Grown(r, Mes) /\ AMonth(r, Mes)
    <2>1. x \in Int /\ e \in Int
        BY DEF PaymentType
    <2>2. Mes \in Nat /\ Grown(r, Mes) /\ AMonth(r, Mes)
        BY GrowthIs
    <2> QED
        BY <2>1, <2>2
<1>2. CASE q.settled
    <2>1. next = q
        BY <1>2 DEF AfterPayment
    <2> QED
        BY <1>2, <2>1 DEF Keeps
<1>3. CASE ~q.settled
    <2>1. \E at : /\ IsCut(rows, e, at)
                  /\ \/ Refinanced(q, p, r, original, at, next)
                     \/ PaidOff(q, p, at, next)
        <3> HIDE DEF next
        <3>1. next = AfterPayment(q, p, r, original)
            BY DEF next
        <3> QED
            BY <1>1, <1>3, <3>1, PaymentDoes
    <2> HIDE DEF next
    <2>2. PICK at : /\ IsCut(rows, e, at)
                    /\ \/ Refinanced(q, p, r, original, at, next)
                       \/ PaidOff(q, p, at, next)
        BY <2>1
    <2>3. /\ rows \in Seq(RowType) /\ l \in Nat /\ at \in 1..l /\ l <= n
          /\ \A i \in 1..(at - 1) : rows[i].venc < e
          /\ rows[at].venc >= e \/ at = l
        BY <2>2 DEF Plans, PlanType, IsCut, Keeps
    <2>4. PICK b \in 1..l, y \in Int, c \in Nat, start \in Int :
             /\ Ends(rows, d, original, r, b, y, c, start)
             /\ Grown(r, c)
             /\ AMonth(r, c) \/ (b < l /\ rows[b].venc < d)
        BY <1>3 DEF Keeps
    <2> DEFINE m == l - b + 1
               j == at - b
    <2>5. /\ \A i \in 1..(b - 1) :
                rows[i].venc < d /\ rows[i].parcela <= original
          /\ Pmt(y, r, m, c) <= original
          /\ \A i \in 1..m : rows[b - 1 + i] = Schedule(y, r, m, c, start)[i]
        BY <2>4 DEF Ends
    <2>6. \A i \in 1..l : rows[i].venc \in Int /\ rows[i].anterior \in Int
        <3>1. ASSUME NEW i \in 1..l
              PROVE  rows[i].venc \in Int /\ rows[i].anterior \in Int
            <4>1. rows[i] \in RowType
                BY <2>3
            <4> QED
                BY <4>1, RowFields
        <3> QED
            BY <3>1
    \* A payment in the order of the dates never reaches a row before b.
    <2>7. at >= b
        <3> SUFFICES ASSUME at < b PROVE FALSE
            BY <2>3, <2>4
        <3>1. at \in 1..(b - 1) /\ at # l
            BY <2>3, <2>4
        <3>2. rows[at].venc < d /\ rows[at].venc >= e
            BY <2>3, <2>5, <3>1
        <3>3. e \in Int /\ rows[at].venc \in Int
            BY <1>1, <2>3, <2>6
        <3> HIDE DEF rows, e, l
        <3>4. d <= e
            BY DEF e
        <3> QED
            BY <3>2, <3>3, <3>4
    <2>8. /\ m \in Nat /\ m >= 1 /\ m <= n /\ j \in 0..(m - 1) /\ at \in Nat
          /\ m - j = l - at + 1 /\ j + 1 \in 1..m /\ at = b - 1 + (j + 1)
          /\ (j + 1) - 1 = j /\ c \in Nat
          /\ b \in Nat /\ b >= 1 /\ l \in Nat /\ at <= l /\ l <= n
        <3> HIDE DEF rows, l
        <3>1. b \in Nat /\ b >= 1 /\ at \in Nat /\ at <= l /\ l \in Nat /\ l <= n
              /\ c \in Nat
            BY <2>3
        <3> QED
            BY <2>7, <3>1
    <2>9. /\ \A i \in 1..m : rows[b - 1 + i] = Schedule(y, r, m, c, start)[i]
          /\ Pmt(y, r, m, c) <= original /\ Pmt(y, r, m, c) \in Int
        <3>1. /\ \A i \in 1..m : rows[b - 1 + i] = Schedule(y, r, m, c, start)[i]
              /\ Pmt(y, r, m, c) <= original
            BY <2>5
        <3> HIDE DEF m
        <3>2. Pmt(y, r, m, c) \in Int
            BY <2>4, <2>8, PmtIsInt
        <3> QED
            BY <3>1, <3>2
    \* The first row of a schedule is financed anew only after a month of grace.
    <2>9a. j = 0 => AMonth(r, c)
        <3> SUFFICES ASSUME j = 0, ~AMonth(r, c) PROVE FALSE
            OBVIOUS
        <3>1. at = b
            BY <2>3, <2>4
        <3>2. b < l /\ rows[b].venc < d
            BY <2>4
        <3>3. rows[b].venc >= e
            BY <2>3, <2>4, <3>1, <3>2
        <3>4. rows[b].venc \in Int
            BY <2>6
        <3> HIDE DEF rows
        <3> QED
            BY <1>1, <3>2, <3>3, <3>4
    <2> HIDE DEF rows, l, m, j, x, e, new
    <2>10. rows[at].anterior = Saldos(y, r, m, c)[j]
        <3> DEFINE k == j + 1
        <3>1. k \in 1..m /\ at = b - 1 + k /\ k - 1 = j
            BY <2>8
        <3> HIDE DEF k
        <3>2. Schedule(y, r, m, c, start)[k].anterior = Saldos(y, r, m, c)[k - 1]
            BY <2>8, <3>1, ScheduleColumns
        <3> QED
            BY <2>9, <3>1, <3>2
    <2>11. \A i \in 1..(at - 1) : rows[i].parcela <= original
        <3>1. ASSUME NEW i \in 1..(at - 1) PROVE rows[i].parcela <= original
            <4>1. CASE i < b
                <5>1. i \in 1..(b - 1)
                    BY <2>4, <4>1
                <5> QED
                    BY <2>5, <5>1
            <4>2. CASE i >= b
                <5> DEFINE k == i - b + 1
                <5>1. k \in 1..m /\ k < m /\ i = b - 1 + k
                    BY <2>8, <4>2 DEF m
                <5> HIDE DEF k
                <5>2. rows[i].parcela = Pmt(y, r, m, c)
                    <6>1. Schedule(y, r, m, c, start)[k].parcela = Pmt(y, r, m, c)
                        BY <2>8, <5>1, ScheduleColumns
                    <6> QED
                        BY <2>9, <5>1, <6>1
                <5> QED
                    BY <2>9, <5>2
            <4> QED
                BY <2>4, <2>8, <4>1, <4>2
        <3> QED
            BY <3>1
    <2>12. CASE PaidOff(q, p, at, next)
        <3>1. new = SubSeq(rows, 1, at - 1) /\ next.settled = TRUE
            BY <2>12 DEF PaidOff, new, rows
        <3>2. /\ Len(new) = at - 1
              /\ \A i \in 1..(at - 1) : new[i] = rows[i]
            BY <2>3, <3>1 DEF l
        <3>3. Len(new) <= n /\ \A i \in 1..Len(new) : new[i].parcela <= original
            <4>1. Len(new) <= n
                BY <2>8, <3>2
            <4>2. \A i \in 1..(at - 1) : new[i].parcela <= original
                BY <2>11, <3>2
            <4> QED
                BY <3>2, <4>1, <4>2
        <3>4. Keeps(next, p.data, n, original, r)
            BY <3>1, <3>3 DEF Keeps, new
        <3> QED
            BY <3>4 DEF next
    <2>13. CASE Refinanced(q, p, r, original, at, next)
        <3> DEFINE saldo == rows[at].anterior - x
        <3>1. PICK k \in 1..(l - at + 1) :
                 /\ saldo > 0
                 /\ k = l - at + 1 \/ Pmt(saldo, r, k, Mes) <= original
                 /\ new = SubSeq(rows, 1, at - 1)
                            \o Schedule(saldo, r, k, Mes, rows[at].venc)
                 /\ next.settled = FALSE
            BY <2>13 DEF Refinanced, new, rows, l, x
        <3> DEFINE at0 == rows[at].venc
                   more == Schedule(saldo, r, k, Mes, at0)
        <3>2. /\ saldo \in Int /\ at0 \in Int /\ k \in Nat /\ k >= 1
              /\ k <= l - at + 1
            <4>1. x \in Int /\ rows[at].anterior \in Int /\ rows[at].venc \in Int
                BY <1>1, <2>3, <2>6
            <4>2. l - at + 1 \in Int
                BY <2>8
            <4> QED
                BY <4>1, <4>2
        <3>3. Pmt(saldo, r, m - j, Mes) <= original /\ Pmt(saldo, r, m - j, Mes) \in Int
            <4>1. j >= 1 => Outweighs(x, r, j)
                <5> SUFFICES ASSUME j >= 1 PROVE Outweighs(x, r, j)
                    OBVIOUS
                <5>1. j \in 1..n
                    BY <2>8
                <5> QED
                    BY <1>1, <5>1, OutweighsSooner DEF x
            <4>2. x >= 1
                <5>1. n \in 1..n
                    BY <2>8
                <5> QED
                    BY <1>1, <5>1, OutweighsSooner DEF x
            <4>3. saldo = Saldos(y, r, m, c)[j] - x
                BY <2>10
            <4>4. Saldos(y, r, m, c)[j] - x > 0
                BY <3>1, <4>3
            <4> HIDE DEF saldo
            <4>5. Pmt(Saldos(y, r, m, c)[j] - x, r, m - j, Mes) <= Pmt(y, r, m, c)
                BY <1>1, <2>4, <2>8, <2>9a, <4>1, <4>2, <4>4, InstalmentFalls
            <4>6. m - j \in Nat /\ m - j >= 1
                BY <2>8
            <4>7. Pmt(saldo, r, m - j, Mes) \in Int
                BY <1>1, <3>2, <4>6, PmtIsInt
            <4> QED
                BY <2>9, <4>3, <4>5, <4>7
        <3>4. Pmt(saldo, r, k, Mes) <= original
            BY <2>8, <3>1, <3>3
        <3>5. new = SubSeq(rows, 1, at - 1) \o more
            BY <3>1
        <3>6. more \in Seq(RowType) /\ Len(more) = k
            <4> HIDE DEF saldo, at0
            <4>1. Monthly(more, saldo, k, Mes, at0)
                BY <1>1, <3>2, ScheduleIsMonthly
            <4> QED
                BY <4>1 DEF Monthly, Chain
        <3> HIDE DEF saldo, at0, more
        <3>7. /\ Len(new) = at - 1 + k
              /\ \A i \in 1..(at - 1) : new[i] = rows[i]
              /\ \A i \in 1..k : new[at - 1 + i] = more[i]
            <4>1. IsSplice(new, rows, at, more)
                BY <2>3, <3>5, <3>6, Spliced DEF l
            <4> QED
                BY <3>6, <4>1 DEF IsSplice
        <3>8. Len(new) <= n /\ at \in 1..Len(new) /\ Len(new) - at + 1 = k
            BY <2>3, <3>2, <3>7
        <3>9. \A i \in 1..(at - 1) : new[i].venc < e /\ new[i].parcela <= original
            BY <2>3, <2>11, <3>7
        <3>10. Ends(new, e, original, r, at, saldo, Mes, at0)
            <4> DEFINE l2 == Len(new) - at + 1
            <4>1. l2 = k
                BY <3>8
            <4> HIDE DEF l2
            <4>2. /\ Pmt(saldo, r, l2, Mes) <= original
                  /\ \A i \in 1..l2 :
                        new[at - 1 + i] = Schedule(saldo, r, l2, Mes, at0)[i]
                BY <3>4, <3>7, <4>1 DEF more
            <4> QED
                BY <3>9, <4>2 DEF Ends, l2
        <3>11. Keeps(next, e, n, original, r)
            BY <1>1, <3>1, <3>2, <3>8, <3>10 DEF Keeps, new
        <3> QED
            BY <3>11 DEF next, e
    <2> QED
        BY <2>2, <2>12, <2>13
<1> QED
    BY <1>2, <1>3

\* What that says of the rows.
LEMMA KeptRows ==
    ASSUME PriceAssumption, NEW q \in Plans, NEW r \in Nat, NEW pmt \in Int,
           NEW d, NEW n \in Nat, n >= 1, Keeps(q, d, n, pmt, r)
    PROVE  \A i \in 1..Len(q.rows) :
              LET more == q.rows[i].parcela - pmt IN
              IF i < Len(q.rows) THEN more <= 0 ELSE ~Outweighs(more, r, n)
<1> DEFINE rows == q.rows
           l == Len(rows)
<1>1. rows \in Seq(RowType) /\ l \in Nat /\ l <= n
    BY DEF Plans, PlanType, Keeps
<1>2. \A i \in 1..l : rows[i].parcela \in Int
    <2>1. ASSUME NEW i \in 1..l PROVE rows[i].parcela \in Int
        <3>1. rows[i] \in RowType
            BY <1>1
        <3> QED
            BY <3>1, RowFields
    <2> QED
        BY <2>1
<1>3. ASSUME NEW x \in Int, x <= 0 PROVE ~Outweighs(x, r, n)
    <2>1. n \in 1..n /\ ~(x >= 1)
        BY <1>3
    <2> QED
        BY <2>1, OutweighsSooner
<1>4. CASE q.settled
    <2>1. \A i \in 1..l : rows[i].parcela <= pmt
        BY <1>4 DEF Keeps
    <2> HIDE DEF rows, l
    <2>2. \A i \in 1..l : rows[i].parcela - pmt \in Int /\ rows[i].parcela - pmt <= 0
        BY <1>2, <2>1
    <2>3. \A i \in 1..l : ~Outweighs(rows[i].parcela - pmt, r, n)
        BY <1>3, <2>2
    <2> QED
        BY <2>2, <2>3 DEF rows, l
<1>5. CASE ~q.settled
    <2>1. PICK b \in 1..l, y \in Int, c \in Nat, start \in Int :
             Ends(rows, d, pmt, r, b, y, c, start) /\ Grown(r, c)
        BY <1>5 DEF Keeps
    <2> DEFINE m == l - b + 1
               P == Pmt(y, r, m, c)
    <2>2. /\ b \in Nat /\ b >= 1 /\ l \in Nat
          /\ m \in Nat /\ m >= 1 /\ m <= n /\ c \in Nat /\ l = b - 1 + m
          /\ m \in 1..m /\ m \in 1..n
        BY <1>1, <2>1
    <2>3. /\ \A i \in 1..m : rows[b - 1 + i] = Schedule(y, r, m, c, start)[i]
          /\ \A i \in 1..(b - 1) : rows[i].parcela <= pmt
          /\ P <= pmt
        BY <2>1 DEF Ends
    <2>4. P \in Int /\ P <= pmt
        <3>1. P <= pmt
            BY <2>3
        <3> HIDE DEF m
        <3> QED
            BY <2>1, <2>2, <3>1, PmtIsInt
    <2> HIDE DEF rows, l, m, P
    <2>5. ASSUME NEW i \in 1..l, i < l PROVE rows[i].parcela - pmt <= 0
        <3>1. rows[i].parcela \in Int
            BY <1>2
        <3>2. CASE i < b
            <4>1. i \in 1..(b - 1)
                BY <2>1, <3>2
            <4> QED
                BY <2>3, <3>1, <4>1
        <3>3. CASE i >= b
            <4> DEFINE k == i - b + 1
            <4>1. k \in 1..m /\ k < m /\ i = b - 1 + k
                BY <2>2, <2>5, <3>3
            <4> HIDE DEF k
            <4>2. rows[i].parcela = P
                <5>1. rows[b - 1 + k] = Schedule(y, r, m, c, start)[k]
                    BY <2>3, <4>1
                <5>2. Schedule(y, r, m, c, start)[k].parcela = Pmt(y, r, m, c)
                    BY <2>2, <4>1, ScheduleColumns
                <5> QED
                    BY <4>1, <5>1, <5>2 DEF P
            <4> QED
                BY <2>4, <4>2
        <3> QED
            BY <2>1, <3>2, <3>3
    <2>6. ~Outweighs(rows[l].parcela - pmt, r, n)
        <3> DEFINE x == rows[l].parcela
        <3>1. rows[l] = Schedule(y, r, m, c, start)[m]
            BY <2>2, <2>3
        <3>2. x \in Int /\ ~Outweighs(x - P, r, m)
            BY <2>1, <2>2, <3>1, LastInstalment DEF P
        <3> HIDE DEF x
        <3>3. x - P \in Int /\ x - pmt \in Int /\ x - pmt <= x - P
            BY <2>4, <3>2
        <3>4. ~Outweighs(x - pmt, r, n)
            BY <2>2, <3>2, <3>3, NoneOutweighs
        <3> QED
            BY <3>4 DEF x
    <2>7. \A i \in 1..l : i < l \/ i = l
        BY <1>1
    <2>8. ASSUME NEW i \in 1..l
          PROVE  IF i < l THEN rows[i].parcela - pmt <= 0
                 ELSE ~Outweighs(rows[i].parcela - pmt, r, n)
        BY <2>5, <2>6, <2>7
    <2> QED
        BY <2>8 DEF rows, l
<1> QED
    BY <1>4, <1>5

LEMMA PaymentsKeep ==
    ASSUME PriceAssumption, GrowthAssumption, NEW plan0 \in Plans,
           NEW payments \in Seq(PaymentType), InOrder(payments),
           NEW r \in Taxas, r \in Nat, NEW n \in Nat, NEW d0 \in Nat,
           Keeps(plan0, d0, n, plan0.pmt, r),
           \A k \in 1..Len(payments) : payments[k].data >= d0,
           \A k \in 1..Len(payments) : Outweighs(payments[k].valor, r, n)
    PROVE  \E d \in Nat :
              Keeps(AfterPayments(plan0, payments, r), d, n, plan0.pmt, r)
<1> DEFINE l == Len(payments)
           pmt == plan0.pmt
<1>1. PICK a : /\ Leads(a, plan0, payments, r)
               /\ AfterPayments(plan0, payments, r) = a[l]
    <2>1. Mes \in Nat /\ Mes >= 1 /\ Grown(r, Mes)
        BY GrowthIs
    <2> QED
        BY <2>1, AfterPaymentsAre
<1>2. /\ l \in Nat /\ pmt \in Int
      /\ \A k \in 1..l : payments[k] \in PaymentType /\ payments[k].data \in Nat
    <2>1. \A x \in PaymentType : x.data \in Nat
        BY DEF PaymentType
    <2>2. plan0.pmt \in Int
        BY DEF Plans, PlanType
    <2> QED
        BY <2>1, <2>2
<1> DEFINE d(k) == IF k = 0 THEN d0 ELSE payments[k].data
           Q == {k \in 0..l : Keeps(a[k], d(k), n, pmt, r)}
<1>3. 0 \in Q /\ Q \in SUBSET (0..l)
    BY <1>1, <1>2 DEF Leads
<1>4. \A k \in 1..l : d(k - 1) \in Nat /\ d(k - 1) <= d(k)
    <2> SUFFICES ASSUME NEW k \in 1..l
                 PROVE  d(k - 1) \in Nat /\ d(k - 1) <= d(k)
        OBVIOUS
    <2>1. k # 0 /\ payments[k].data \in Nat
        BY <1>2
    <2>2. CASE k = 1
        BY <2>1, <2>2
    <2>3. CASE k # 1
        <3>1. k - 1 \in 1..l /\ k - 1 # 0 /\ k - 1 <= k
            BY <1>2, <2>3
        <3>2. payments[k - 1].data <= payments[k].data
            BY <3>1 DEF InOrder
        <3> QED
            BY <1>2, <2>1, <3>1, <3>2
    <2> QED
        BY <2>2, <2>3
<1>5. ASSUME NEW k \in 1..l, k - 1 \in Q PROVE k \in Q
    <2> DEFINE q == a[k - 1]
               p == payments[k]
               e == d(k - 1)
    <2>1. k - 1 \in 0..l /\ k \in 0..l /\ k # 0
        BY <1>2
    <2>2. q \in Plans /\ a[k] = AfterPayment(q, p, r, pmt)
        BY <1>1, <2>1 DEF Leads
    <2>3. p \in PaymentType /\ e \in Nat /\ e <= p.data /\ Outweighs(p.valor, r, n)
        BY <1>2, <1>4, <2>1
    <2>4. Keeps(q, e, n, pmt, r)
        BY <1>5
    <2> HIDE DEF q, p, e, pmt
    <2>5. Keeps(AfterPayment(q, p, r, pmt), p.data, n, pmt, r)
        BY <1>2, <2>2, <2>3, <2>4, PaymentHelps
    <2>6. d(k) = p.data
        BY <2>1 DEF p
    <2> QED
        BY <2>1, <2>2, <2>5, <2>6
<1> HIDE DEF Q
<1>6. Q = 0..l
    BY <1>2, <1>3, <1>5, UpTo
<1>7. l \in 0..l
    BY <1>2
<1>8. Keeps(a[l], d(l), n, pmt, r)
    BY <1>6, <1>7 DEF Q
<1>9. d(l) \in Nat
    BY <1>2
<1> QED
    BY <1>1, <1>8, <1>9

\* apply_extraordinary_amortizations takes every payment off what is repaid, to
\* the cent, and keeps the rows in the order of their dates: see PaymentsCount.
\* Payments that are no mere cents lengthen no plan and raise no instalment: see
\* PaymentsHelp.
THEOREM PaymentsFair == Spec => []PaymentsAreFair
<1>1. SimInv => PaymentsAreFair
    <2> SUFFICES ASSUME SimInv, plan # None PROVE PaymentsAreFair
        BY DEF PaymentsAreFair, PaymentsCount, PaymentsHelp
    <2> USE PriceAssumption, GrowthAssumption, LoansAssumption
    <2>1. sim # None /\ paid \in Payments
        BY DEF SimInv
    <2>2. PICK f \in FormType : sim = Computed(f)
        BY <2>1, SimulationIs
    <2>3. PICK y \in Int : Shows(sim, f, y)
        BY <2>2, ComputedShows
    <2>4. /\ sim.form = f /\ sim.pmt \in Int
          /\ sim.rows = Schedule(y, f.taxa, f.prazo, f.carencia, 0)
        BY <2>3 DEF Shows
    <2> DEFINE rows == sim.rows
               plan0 == [rows |-> rows, pmt |-> sim.pmt, settled |-> FALSE]
               r == f.taxa
    <2>5. /\ plan = AfterPayments(plan0, paid, r) /\ r \in Nat /\ r \in Taxas
          /\ Mes \in Nat /\ Mes >= 1 /\ Grown(r, Mes)
        <3>1. r \in Nat /\ r \in Taxas
            BY FormGrows
        <3>2. Mes \in Nat /\ Mes >= 1 /\ Grown(r, Mes)
            BY <3>1, GrowthIs
        <3> QED
            BY <2>4, <3>1, <3>2 DEF SimInv
    <2>6. Monthly(rows, y, f.prazo, f.carencia, 0)
        BY <2>4, FormIsMonthly
    <2>7. /\ f.prazo \in Nat /\ f.prazo >= 1 /\ f.carencia \in Nat
          /\ Grown(r, f.carencia) /\ (f.carencia >= Mes => AMonth(r, f.carencia))
        BY FormFields, FormGrows
    <2> HIDE DEF rows, r
    <2>8. Chain(rows, y) /\ rows \in Seq(RowType) /\ rows[Len(rows)].saldo = 0
          /\ Len(rows) >= 1
        BY <2>6 DEF Monthly, Chain
    <2>9. InTime(rows)
        <3> DEFINE c == f.carencia
        <3>1. /\ Len(rows) = f.prazo /\ c \in Nat
              /\ \A k \in 1..f.prazo : rows[k].venc = 0 + c + (k - 1) * Mes
            BY <2>6, <2>7 DEF Monthly
        <3> HIDE DEF c
        <3>2. ASSUME NEW i \in 1..Len(rows), NEW j \in 1..Len(rows), i < j
              PROVE  rows[i].venc < rows[j].venc
            <4> DEFINE x == (i - 1) * Mes
                       z == (j - 1) * Mes
            <4>1. i - 1 \in Int /\ j - 1 \in Int /\ (i - 1) + 1 <= j - 1
                BY <2>8, <3>2
            <4>2. ((i - 1) + 1) * Mes <= (j - 1) * Mes
                BY <2>5, <4>1, Scaled
            <4>3. ((i - 1) + 1) * Mes = x + Mes /\ x \in Int /\ z \in Int
                BY <2>5, <4>1, OneMore
            <4>4. x < z /\ x \in Int /\ z \in Int
                BY <2>5, <4>2, <4>3
            <4>5. rows[i].venc = 0 + c + x /\ rows[j].venc = 0 + c + z
                BY <3>1
            <4> HIDE DEF x, z
            <4> QED
                BY <3>1, <4>4, <4>5
        <3> QED
            BY <3>2 DEF InTime
    <2>10. plan0 \in Plans
        <3>1. plan0 \in PlanType
            BY <2>4, <2>8 DEF PlanType
        <3>2. plan0.rows = rows /\ plan0.settled = FALSE
            OBVIOUS
        <3> HIDE DEF plan0
        <3> QED
            BY <2>8, <2>9, <3>1, <3>2 DEF Plans
    <2>11. Anchored(plan0, 0, 0, y)
        <3>1. PICK g : Repays(rows, y, g)
            BY <2>8, ChainSums
        <3>2. /\ g \in [0..Len(rows) -> Int]
              /\ Sums(Column(rows, "amort"), g) /\ g[Len(rows)] = y
              /\ \A i \in 1..Len(rows) : rows[i].anterior = y - g[i - 1]
            BY <3>1 DEF Repays
        <3>3. g[Len(rows)] + 0 = y
            BY <3>2
        <3>4. plan0.rows = rows /\ plan0.settled = FALSE
            OBVIOUS
        <3>5. \A i \in 1..Len(rows) : rows[i].venc >= 0 \/ i = Len(rows) =>
                                          rows[i].anterior = g[Len(rows)] - g[i - 1]
            BY <3>2
        <3> HIDE DEF plan0
        <3> QED
            BY <2>8, <3>2, <3>3, <3>4, <3>5 DEF Anchored
    <2>12. Repaid(rows) = y
        BY <2>8, ChainAddsUp
    <2>13. paid \in Seq(PaymentType)
        <3>1. PICK k \in 1..MaxPayments :
                paid \in [1..k -> [data: Datas, valor: Valores,
                                   modo: {"reduzir_parcela", "reduzir_prazo"}]]
            BY <2>1 DEF Payments
        <3>2. k \in Nat
            OBVIOUS
        <3>3. \A i \in 1..k : paid[i] \in PaymentType
            BY <3>1 DEF PaymentType, LoansAssumption
        <3>4. paid \in [1..k -> PaymentType]
            BY <3>1, <3>3
        <3> QED
            BY <3>2, <3>4
    <2> HIDE DEF plan0
    <2>14. plan \in Plans
        <3>1. PICK a : /\ Leads(a, plan0, paid, r)
                       /\ AfterPayments(plan0, paid, r) = a[Len(paid)]
            BY <2>5, <2>10, <2>13, AfterPaymentsAre
        <3>2. Len(paid) \in 0..Len(paid)
            BY <2>13
        <3> QED
            BY <2>5, <3>1, <3>2 DEF Leads
    <2>15. \A i, j \in DOMAIN plan.rows :
              i < j => plan.rows[i].venc < plan.rows[j].venc
        <3>1. InTime(plan.rows) /\ DOMAIN plan.rows = 1..Len(plan.rows)
            BY <2>14 DEF Plans, PlanType
        <3> QED
            BY <3>1 DEF InTime
    <2>16. ASSUME InOrder(paid)
           PROVE  LET all == Repaid(plan.rows) + Total(Column(paid, "valor")) IN
                  IF plan.settled THEN all >= Repaid(rows)
                  ELSE all = Repaid(rows) /\ Last(plan.rows).saldo = 0
        <3> DEFINE t == Total(Column(paid, "valor"))
        <3>1. PICK d \in Nat : Anchored(plan, d, t, y)
            BY <2>5, <2>10, <2>11, <2>13, <2>16, PaymentsAddUp
        <3> HIDE DEF t
        <3>2. CASE plan.settled
            BY <2>12, <3>1, <3>2 DEF Anchored, t
        <3>3. CASE ~plan.settled
            <4>1. PICK g \in [0..Len(plan.rows) -> Int] :
                    /\ Sums(Column(plan.rows, "amort"), g)
                    /\ g[Len(plan.rows)] + t = y
                    /\ plan.rows[Len(plan.rows)].saldo = 0
                BY <3>1, <3>3 DEF Anchored
            <4>2. plan.rows \in Seq(RowType)
                BY <2>14 DEF Plans, PlanType
            <4>3. /\ Column(plan.rows, "amort") \in Seq(Int)
                  /\ Len(Column(plan.rows, "amort")) = Len(plan.rows)
                BY <4>2, ColumnIsSeq
            <4>4. Repaid(plan.rows) = g[Len(plan.rows)]
                BY <4>1, <4>3, TotalIs DEF Repaid
            <4>5. Last(plan.rows).saldo = 0
                BY <4>1 DEF Last
            <4> QED
                BY <2>12, <3>3, <4>1, <4>4, <4>5 DEF t
        <3> QED
            BY <3>2, <3>3
    <2>17. PaymentsCount
        BY <2>15, <2>16 DEF PaymentsCount, rows
    <2> DEFINE n == Len(rows)
               pmt == sim.pmt
    <2>18. ASSUME InOrder(paid), \A i \in DOMAIN paid : Outweighs(paid[i].valor, r, n),
                  sim.form.carencia >= Mes
                  \/ \A i \in DOMAIN paid : paid[i].data > sim.rows[1].venc,
                  n > 1
           PROVE  /\ Len(plan.rows) <= n
                  /\ \A i \in DOMAIN plan.rows :
                        LET more == plan.rows[i].parcela - pmt IN
                        IF i < Len(plan.rows) THEN more <= 0
                        ELSE ~Outweighs(more, r, n)
        <3> DEFINE c == f.carencia
        <3>1. n = f.prazo /\ n \in Nat /\ n >= 2 /\ c \in Nat /\ 0 \in Int
              /\ 1 \in 1..n /\ Grown(r, c)
            BY <2>4, <2>6, <2>7, <2>18 DEF Monthly
        <3>2. pmt = Pmt(y, r, n, c) /\ pmt \in Int
            BY <2>3, <2>4, <3>1 DEF Shows, r
        <3>3. rows = Schedule(y, r, n, c, 0)
            BY <2>4, <3>1 DEF rows, r
        \* From which day on the payments are made.
        <3>3a. \E d \in Nat : /\ AMonth(r, c) \/ rows[1].venc < d
                              /\ \A k \in 1..Len(paid) : paid[k].data >= d
            <4>1. \A k \in 1..Len(paid) : paid[k].data \in Nat
                <5>1. \A k \in 1..Len(paid) : paid[k] \in PaymentType
                    BY <2>13
                <5>2. \A p \in PaymentType : p.data \in Nat
                    BY DEF PaymentType
                <5> QED
                    BY <5>1, <5>2
            <4>2. CASE c >= Mes
                <5>1. \A k \in 1..Len(paid) : paid[k].data >= 0
                    BY <4>1
                <5>2. AMonth(r, c) /\ 0 \in Nat
                    BY <2>7, <4>2
                <5> QED
                    BY <5>1, <5>2
            <4>3. CASE ~(c >= Mes)
                <5> DEFINE v == rows[1].venc
                <5>1. \A k \in 1..Len(paid) : paid[k].data > v
                    <6>1. ~(sim.form.carencia >= Mes)
                        BY <2>4, <4>3
                    <6>2. \A k \in DOMAIN paid : paid[k].data > sim.rows[1].venc
                        BY <2>18, <6>1
                    <6> QED
                        BY <2>13, <6>2 DEF rows
                <5>2. v = 0 + c + (1 - 1) * Mes
                    BY <2>6, <3>1 DEF Monthly
                <5>3. (1 - 1) * Mes = 0
                    BY <2>5
                <5>4. v \in Nat
                    BY <3>1, <5>2, <5>3
                <5> HIDE DEF v
                <5>5. \A x \in Nat : x > v => x >= v + 1
                    BY <5>4
                <5>6. \A k \in 1..Len(paid) : paid[k].data >= v + 1
                    BY <4>1, <5>1, <5>5
                <5>7. v + 1 \in Nat /\ v < v + 1
                    BY <5>4
                <5> QED
                    BY <5>6, <5>7 DEF v
            <4> QED
                BY <4>2, <4>3
        <3>3b. PICK d0 \in Nat : /\ AMonth(r, c) \/ rows[1].venc < d0
                                 /\ \A k \in 1..Len(paid) : paid[k].data >= d0
            BY <3>3a
        <3> HIDE DEF c, n, pmt
        <3>4. Ends(rows, d0, pmt, r, 1, y, c, 0)
            <4> DEFINE m == Len(rows) - 1 + 1
            <4>1. m = n
                BY <3>1 DEF n
            <4> HIDE DEF m
            <4>2. \A i \in 1..m : 1 - 1 + i = i
                BY <3>1, <4>1
            <4>3. /\ Pmt(y, r, m, c) <= pmt
                  /\ \A i \in 1..m : rows[1 - 1 + i] = Schedule(y, r, m, c, 0)[i]
                BY <3>2, <3>3, <4>1, <4>2
            <4>4. 1..(1 - 1) = {}
                OBVIOUS
            <4> QED
                BY <4>3, <4>4 DEF Ends, m
        <3>5. plan0.rows = rows /\ plan0.settled = FALSE /\ plan0.pmt = pmt
            BY DEF plan0, pmt
        <3>6. Keeps(plan0, d0, n, pmt, r)
            <4>1. 1 \in 1..Len(rows) /\ 1 < Len(rows)
                BY <3>1 DEF n
            <4> QED
                BY <3>1, <3>4, <3>5, <3>3b, <4>1 DEF Keeps, n
        <3>7. \A k \in 1..Len(paid) : Outweighs(paid[k].valor, r, n)
            BY <2>13, <2>18
        <3>8. PICK d \in Nat : Keeps(plan, d, n, pmt, r)
            BY <2>5, <2>10, <2>13, <2>18, <3>1, <3>5, <3>6, <3>7, <3>3b,
               PaymentsKeep
        <3>9. plan.rows \in Seq(RowType) /\ DOMAIN plan.rows = 1..Len(plan.rows)
            BY <2>14 DEF Plans, PlanType
        <3>10. n >= 1
            BY <3>1
        <3>11. \A i \in 1..Len(plan.rows) :
                  LET more == plan.rows[i].parcela - pmt IN
                  IF i < Len(plan.rows) THEN more <= 0 ELSE ~Outweighs(more, r, n)
            BY <2>5, <2>14, <3>1, <3>2, <3>8, <3>10, KeptRows
        <3>12. Len(plan.rows) <= n
            BY <3>8 DEF Keeps
        <3> QED
            BY <3>9, <3>11, <3>12
    <2>19. PaymentsHelp
        <3>1. sim.form.taxa = r
            BY <2>4 DEF r
        <3> QED
            BY <2>18, <3>1 DEF PaymentsHelp, rows
    <2> QED
        BY <2>17, <2>19 DEF PaymentsAreFair
<1> QED
    BY <1>1, SimInvHolds, PTL
=============================================================================
