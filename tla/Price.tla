-------------------------------- MODULE Price --------------------------------
(***************************************************************************)
(* The arithmetic of a financing: packages/finacialsim_core (the desktop   *)
(* application has its own copy under app/core).  Amounts are in cents,    *)
(* dates in days, a monthly rate is a numerator over RateUnit.  Every      *)
(* month of the calendar has Mes days here.                                *)
(***************************************************************************)
EXTENDS Integers, SequencesExt

CONSTANTS
    RateUnit,     \* the monthly rate r stands for r / RateUnit
    Mes,          \* days of a month
    Taxas,        \* the monthly rates
    Dias,         \* the days of grace before a first instalment
    Growth,       \* Growth[<<r, c>>]: <<a, b>> if 1 grows to a / b in c days at r
    IofUnit,      \* the two rates of the tax stand for x / IofUnit
    Fixo,         \* of the amount
    Diario,       \* of each repayment and day until it
    MaxDias       \* days after which the tax stops growing

Num(r, c) == Growth[<<r, c>>][1]
Den(r, c) == Growth[<<r, c>>][2]

ASSUME PriceAssumption ==
    /\ RateUnit \in Nat \ {0} /\ IofUnit \in Nat \ {0} /\ Mes \in Nat \ {0}
    /\ {Fixo, Diario, MaxDias} \subseteq Nat
    /\ Taxas \subseteq Nat /\ Dias \subseteq Nat /\ Mes \in Dias

\* The daily rate is the root of the monthly one, taken in floating point.
\* Nothing is asked of it but that what grows never falls, does not grow at
\* no rate, and grows by the monthly rate in a month.
ASSUME GrowthAssumption ==
    /\ Growth \in [Taxas \X Dias -> (Nat \ {0}) \X (Nat \ {0})]
    /\ \A r \in Taxas, c \in Dias :
          /\ Den(r, c) <= Num(r, c)
          /\ r = 0 => Num(r, c) = Den(r, c)
          /\ c >= Mes =>
                (RateUnit + r) * Den(r, c) <= RateUnit * Num(r, c)
    /\ \A r \in Taxas :
          RateUnit * Num(r, Mes) = (RateUnit + r) * Den(r, Mes)

Least(a, b) == IF a <= b THEN a ELSE b

Power(x, k) ==
    LET p[i \in 0..k] == IF i = 0 THEN 1 ELSE x * p[i - 1]
    IN p[k]

Total(s) ==
    LET sum[i \in 0..Len(s)] == IF i = 0 THEN 0 ELSE sum[i - 1] + s[i]
    IN sum[Len(s)]

\* quantize_brl of a / b: to the cent, half up, for an a that is not negative.
Rounded(a, b) == a \div b + (IF 2 * (a % b) >= b THEN 1 ELSE 0)

\* The instalment for pv over n months at rate r, the first of them after c
\* days.
Pmt(pv, r, n, c) ==
    IF r = 0 THEN Rounded(pv, n)
    ELSE LET u == RateUnit + r IN
         Rounded(pv * Num(r, c) * Power(u, n - 1) * r,
                 Den(r, c) * (Power(u, n) - Power(RateUnit, n)))

\* The first row's interest is that of the days of grace.
Juros(pv, saldo, r, c, k) ==
    IF k = 1
    THEN Rounded(pv * (Num(r, c) - Den(r, c)), Den(r, c))
    ELSE Rounded(saldo * r, RateUnit)

\* Defect: the last row is like the others.
RepaymentLikeOthers(pmt, juros, saldo, k, n) == pmt - juros

\* The last instalment takes whatever is still owed.
Repayment(pmt, juros, saldo, k, n) == IF k < n THEN pmt - juros ELSE saldo

\* What is owed after each month.
Saldos(pv, r, n, c) ==
    LET pmt == Pmt(pv, r, n, c)
        owed[k \in 0..n] ==
            IF k = 0 THEN pv
            ELSE owed[k - 1] - Repayment(pmt, Juros(pv, owed[k - 1], r, c, k),
                                         owed[k - 1], k, n)
    IN owed

\* The rows for pv from day start: venc is the day a row is due.
Schedule(pv, r, n, c, start) ==
    LET pmt == Pmt(pv, r, n, c)
        owed == Saldos(pv, r, n, c)
    IN [k \in 1..n |->
          LET juros == Juros(pv, owed[k - 1], r, c, k)
              amort == Repayment(pmt, juros, owed[k - 1], k, n)
          IN [venc |-> start + c + (k - 1) * Mes,
              anterior |-> owed[k - 1],
              juros |-> juros,
              amort |-> amort,
              parcela |-> IF k < n THEN pmt ELSE juros + amort,
              saldo |-> owed[k]]]

Column(rows, c) == [i \in DOMAIN rows |-> rows[i][c]]

-----------------------------------------------------------------------------
(* The tax, and the amount that includes it *)

Iof(pv, rows) ==
    Rounded(pv * Fixo, IofUnit)
    + Rounded(Total([i \in DOMAIN rows |->
                  rows[i].amort * Diario * Least(rows[i].venc, MaxDias)]),
              IofUnit)

\* Defect: one round only.
MaxIterOne == 1

MaxIter == 10

\* Rounds of tax and schedule until the amount stays; after the last one
\* whatever has been reached is taken.
Financed(inicial, r, n, c) ==
    LET round[k \in 0..MaxIter] ==
            IF k = 0 THEN [pv |-> inicial, rows |-> <<>>, iof |-> 0,
                           met |-> FALSE]
            ELSE LET before == round[k - 1]
                     rows == Schedule(before.pv, r, n, c, 0)
                     iof == Iof(before.pv, rows)
                 IN IF before.met THEN before
                    ELSE [pv |-> inicial + iof, rows |-> rows, iof |-> iof,
                          met |-> inicial + iof = before.pv]
    IN round[MaxIter]

-----------------------------------------------------------------------------
(* Costs on top of the instalments *)

\* Defect: the last month pays what the others pay.
EvenShare(valor, per, months, i) == per

\* Of a value spread over some months: the last takes the rounding.
Share(valor, per, months, i) ==
    IF i < months THEN per ELSE valor - per * (months - 1)

\* What cost e adds to instalment i of n.
Extra(e, n, i) ==
    CASE e.modo = "unico_inicial" -> IF i = 1 THEN e.valor ELSE 0
      [] e.modo = "mensal_continuo" ->
            IF i <= Least(e.meses, n) THEN e.valor ELSE 0
      [] e.modo = "rateio_meses" ->
            LET months == Least(e.meses, n) IN
            IF i > months THEN 0
            ELSE Share(e.valor, Rounded(e.valor, e.meses), months, i)
      [] e.modo = "rateio_ciclico" ->
            LET start == ((i - 1) \div e.meses) * e.meses
                months == Least(e.meses, n - start)
            IN Share(e.valor, Rounded(e.valor, months), months, i - start)

-----------------------------------------------------------------------------
(* Payments on top of the instalments *)

\* Defect: the search stops a month early.
TermOneShort(saldo, r, remaining, pmt) ==
    CHOOSE n \in 1..remaining :
        /\ n = remaining \/ Pmt(saldo, r, n + 1, Mes) <= pmt
        /\ \A m \in 2..n : Pmt(saldo, r, m, Mes) > pmt

\* The fewest months whose instalment is not above pmt, or all that remain.
ShortestTerm(saldo, r, remaining, pmt) ==
    CHOOSE n \in 1..remaining :
        /\ n = remaining \/ Pmt(saldo, r, n, Mes) <= pmt
        /\ \A m \in 1..(n - 1) : Pmt(saldo, r, m, Mes) > pmt

\* Defect: the row's own repayment is taken off as well.
OwedAfterRow(row, p) == row.saldo - p.valor

\* What is financed anew.
Owed(row, p) == row.anterior - p.valor

\* The plan after payment p: from the first row due on its date or after it,
\* what is owed less the payment is financed anew, as if released when that
\* row was due, with a month of grace.
AfterPayment(plan, p, r, pmtOriginal) ==
    LET rows == plan.rows
        later == {i \in DOMAIN rows : rows[i].venc >= p.data}
        at == IF later = {} THEN Len(rows)
              ELSE CHOOSE i \in later : \A j \in later : i <= j
        saldo == Owed(rows[at], p)
        remaining == Len(rows) - at + 1
        n == IF p.modo = "reduzir_parcela" THEN remaining
             ELSE ShortestTerm(saldo, r, remaining, pmtOriginal)
    IN
    IF plan.settled THEN plan
    ELSE IF saldo <= 0
    THEN [rows |-> SubSeq(rows, 1, at - 1), pmt |-> plan.pmt, settled |-> TRUE]
    ELSE [rows |-> SubSeq(rows, 1, at - 1)
                     \o Schedule(saldo, r, n, Mes, rows[at].venc),
          pmt |-> IF p.modo = "reduzir_parcela"
                  THEN Pmt(saldo, r, remaining, Mes) ELSE pmtOriginal,
          settled |-> FALSE]

\* apply_extraordinary_amortizations
AfterPayments(plan, payments, r) ==
    LET after[k \in 0..Len(payments)] ==
            IF k = 0 THEN plan
            ELSE AfterPayment(after[k - 1], payments[k], r, plan.pmt)
    IN after[Len(payments)]
=============================================================================
