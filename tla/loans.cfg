\* Terms of two to four months; up to two payments ahead of time, in any order.
SPECIFICATION Spec
CONSTANTS
    RateUnit = 10
    Mes = 30
    Taxas <- MCTaxas
    Dias <- MCDias
    Growth <- MCGrowth
    IofUnit = 1000000
    Fixo = 3800
    Diario = 82
    MaxDias = 120
    Forms <- MCForms
    Rules <- MCRules
    Datas = {0, 60, 105, 180}
    Valores = {150, 700}
    MaxPayments = 2
INVARIANTS SimulationsAddUp ExtrasAddUp SimulationsSettle PaymentsAreFair
CHECK_DEADLOCK FALSE
