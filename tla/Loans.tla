-------------------------------- MODULE Loans --------------------------------
(***************************************************************************)
(* A simulation and what its customer may pay ahead of time: run_and_save  *)
(* (app/services/simulation_service.py, and _compute of the web            *)
(* application, which calculates the same), AmortizationService.apply.     *)
(*                                                                         *)
(* One simulation at a time, and nothing of how it is stored: the modules  *)
(* Desktop and SimulationDesk say that.                                    *)
(***************************************************************************)
EXTENDS Price

CONSTANTS
    Forms,        \* what may be asked for: see FormType
    Rules,        \* the business rules it is checked against
    Datas,        \* days of the payments
    Valores,      \* and their amounts
    MaxPayments   \* bound: payments in one call

\* Amounts in cents; carencia is the days from the release to the first
\* instalment; extra is a cost on top.
FormType == [veiculo: Nat \ {0}, entrada: Nat, tarifa: Nat,
             prazo: Nat \ {0}, taxa: Taxas, carencia: Dias, incluirIof: BOOLEAN,
             extra: [valor: Nat, meses: Nat \ {0},
                     modo: {"unico_inicial", "mensal_continuo",
                            "rateio_meses", "rateio_ciclico"}]]

ASSUME LoansAssumption ==
    /\ Forms \subseteq FormType
    /\ Datas \cup Valores \cup {MaxPayments} \subseteq Nat

VARIABLES
    sim,      \* the simulation, as it was stored
    paid,     \* the payments of the last call of apply
    plan      \* the schedule that call gave back

vars == <<sim, paid, plan>>

None == [form |-> "none"]

Payments ==
    UNION {[1..k -> [data: Datas, valor: Valores,
                     modo: {"reduzir_parcela", "reduzir_prazo"}]] :
             k \in 1..MaxPayments}

\* validate_simulation, with the errors only: a rate that is unusually low
\* is a warning.
Valid(f) ==
    /\ f.entrada * 100 >= Rules.entradaMinima * f.veiculo
    /\ f.prazo \in Rules.prazoMinimo..Rules.prazoMaximo
    /\ f.taxa <= Rules.taxaMaxima
    /\ f.carencia <= Rules.carenciaMaxima
    /\ f.veiculo - f.entrada >= Rules.valorMinimo

\* What a form comes to.
Computed(f) ==
    LET inicial == f.veiculo - f.entrada + f.tarifa
        financed ==
            IF f.incluirIof
            THEN Financed(inicial, f.taxa, f.prazo, f.carencia)
            ELSE [pv |-> inicial, iof |-> 0,
                  rows |-> Schedule(inicial, f.taxa, f.prazo, f.carencia, 0)]
        extras == [i \in 1..f.prazo |-> Extra(f.extra, f.prazo, i)]
    IN [form |-> f,
        financiado |-> financed.pv,
        iof |-> financed.iof,
        rows |-> financed.rows,
        pmt |-> IF f.prazo = 1 THEN Pmt(financed.pv, f.taxa, 1, f.carencia)
                ELSE financed.rows[1].parcela,
        pago |-> Total(Column(financed.rows, "parcela")),
        juros |-> Total(Column(financed.rows, "juros")),
        extras |-> extras]

Init == sim = None /\ paid = <<>> /\ plan = None

\* One simulation in a behaviour: none reads another.  compute_cet refuses a
\* loan that pays back no more than was received.
Simulate(f) ==
    /\ sim = None
    /\ Valid(f)
    /\ sim' = Computed(f)
    /\ f.veiculo - f.entrada < sim'.pago
    /\ UNCHANGED <<paid, plan>>

\* One call in a behaviour: every call starts from the stored rows, and none
\* from what another gave back.
Apply(payments) ==
    /\ sim # None /\ plan = None
    /\ paid' = payments
    /\ plan' = AfterPayments(
                   [rows |-> sim.rows, pmt |-> sim.pmt, settled |-> FALSE],
                   payments, sim.form.taxa)
    /\ UNCHANGED sim

Next ==
    \/ \E f \in Forms : Simulate(f)
    \/ \E payments \in Payments : Apply(payments)

Spec == Init /\ [][Next]_vars

-----------------------------------------------------------------------------
Repaid(rows) == Total(Column(rows, "amort"))
Gap(a, b) == IF a >= b THEN a - b ELSE b - a

\* What a cent a month has grown to when the n-th is paid, in units of
\* RateUnit^(n - 1).
Cents(r, n) ==
    LET of[k \in 0..n] ==
            IF k = 0 THEN 0
            ELSE (RateUnit + r) * of[k - 1] + Power(RateUnit, k - 1)
    IN of[n]

\* x cents are more than what a cent a month has grown to after n months.
Outweighs(x, r, n) == Cents(r, n) < x * Power(RateUnit, n - 1)

\* What a simulation shows hangs together: its rows go to zero, from the
\* amount that is financed where no tax is added to it, the tax is what the
\* amount has grown by, the total is what is repaid and the interest; and the
\* instalment, rounded as it and the interest are, never repays more than is
\* owed, unless it is as small as the cents that rounding may cost.
SimulationsAddUp ==
    sim # None =>
        /\ Outweighs(sim.pmt, sim.form.taxa, sim.form.prazo) =>
              \A i \in DOMAIN sim.rows : sim.rows[i].saldo >= 0
        /\ ~sim.form.incluirIof => Repaid(sim.rows) = sim.financiado
        /\ Last(sim.rows).saldo = 0
        /\ sim.iof = sim.financiado
                       - (sim.form.veiculo - sim.form.entrada + sim.form.tarifa)
        /\ sim.pago = Repaid(sim.rows) + sim.juros

\* The rounds of tax and schedule end where the two agree, but for the cent
\* of a round that was not made.
SimulationsSettle ==
    sim # None => Gap(Repaid(sim.rows), sim.financiado) <= 1

\* A cost that is spread is charged to the cent, over fewer months when the
\* term is shorter; no instalment is reduced by it, unless the value is so
\* small that its rounding exceeds it.
ExtrasAddUp ==
    sim # None =>
        LET e == sim.form.extra
            n == sim.form.prazo
            cycles == (n + e.meses - 1) \div e.meses
        IN
        /\ e.modo \in {"rateio_meses", "unico_inicial"} =>
              Total(sim.extras) = e.valor
        /\ e.modo = "rateio_ciclico" => Total(sim.extras) = cycles * e.valor
        /\ 2 * e.valor >= n * n => \A i \in 1..n : sim.extras[i] >= 0

InOrder(payments) ==
    \A i, j \in DOMAIN payments : i <= j => payments[i].data <= payments[j].data

\* Whatever is paid ahead is taken off what the rows repay, to the cent, and
\* the rows stay in the order of their dates; unless the list names an
\* earlier date after a later one, when the later payment is forgotten.
PaymentsCount ==
    plan # None =>
        /\ InOrder(paid) =>
              LET all == Repaid(plan.rows) + Total(Column(paid, "valor")) IN
              IF plan.settled THEN all >= Repaid(sim.rows)
              ELSE all = Repaid(sim.rows) /\ Last(plan.rows).saldo = 0
        /\ \A i, j \in DOMAIN plan.rows :
              i < j => plan.rows[i].venc < plan.rows[j].venc

\* Who pays ahead more than rounding may cost has no more instalments for it
\* and no higher ones, but for the cents in the last.  The exceptions: grace
\* of less than a month made the first plan's instalments cheaper than those
\* of a later plan, which has a month, so a payment up to the first
\* instalment may raise them; and when the payments are out of order the term
\* a forgotten one shortened stays.  Of one instalment the simulation shows
\* another than its schedule has if the rounds of the tax were too few.
PaymentsHelp ==
    LET r == sim.form.taxa
        n == Len(sim.rows)
    IN
    /\ plan # None /\ InOrder(paid)
    /\ \A i \in DOMAIN paid : Outweighs(paid[i].valor, r, n)
    /\ \/ sim.form.carencia >= Mes
       \/ \A i \in DOMAIN paid : paid[i].data > sim.rows[1].venc
    /\ n > 1
    =>
    /\ Len(plan.rows) <= n
    /\ \A i \in DOMAIN plan.rows :
          LET more == plan.rows[i].parcela - sim.pmt IN
          IF i < Len(plan.rows) THEN more <= 0 ELSE ~Outweighs(more, r, n)

\* Payments ahead of time neither lose money nor cost any.
PaymentsAreFair == PaymentsCount /\ PaymentsHelp
=============================================================================
