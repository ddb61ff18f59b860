------------------------------- MODULE MCLoans -------------------------------
(* Small amounts at ten percent a month, with and without the tax, the      *)
(* first instalment due at once, after half a month, one, one and a half or *)
(* two; costs of every kind on one of them.                                 *)
EXTENDS Loans, TLC

MCTaxas == {0, 1, 2}
MCDias == {0, 15, 30, 45, 60, 120}

\* By the month, and for half a month by (40 + 3r) / (40 + r), which is the
\* square root of 1 + r / 10 to one in five thousand.
MCGrowth ==
    [rc \in MCTaxas \X MCDias |->
        LET months == rc[2] \div 30
            half == (rc[2] % 30) \div 15
        IN <<(10 + rc[1])^months * (40 + 3 * rc[1])^half, 10^months * (40 + rc[1])^half>>]

Plain == [valor |-> 0, modo |-> "unico_inicial", meses |-> 1]

Costs ==
    {Plain, [valor |-> 100, modo |-> "unico_inicial", meses |-> 1]}
    \cup {[valor |-> v, modo |-> m, meses |-> k] :
            m \in {"mensal_continuo", "rateio_meses", "rateio_ciclico"},
            v \in {2, 100}, k \in {1, 3, 6}}

MCForms ==
    [veiculo: {503, 963, 1505, 1920}, entrada: {50, 100}, tarifa: {30},
     prazo: {2, 3, 4}, taxa: {0, 1}, carencia: {0, 15, 30, 60}, incluirIof: BOOLEAN,
     extra: {Plain}]
    \cup [veiculo: {963}, entrada: {100}, tarifa: {0}, prazo: 1..5, taxa: {2},
          carencia: {45, 60, 120}, incluirIof: {FALSE}, extra: Costs]

MCRules == [entradaMinima |-> 4, prazoMinimo |-> 2, prazoMaximo |-> 4,
            taxaMaxima |-> 2, carenciaMaxima |-> 90, valorMinimo |-> 450]
=============================================================================
