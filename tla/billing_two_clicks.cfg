\* Two requests for the same instalment at the same time.
SPECIFICATION Spec
CONSTANTS
  Parcelas = {p1}
  Charges = {c1, c2}
  Workers = {w1, w2}
  None = None
  Due <- MCDue
  Carencia = 0
  Validade = 1
  HasRates = TRUE
  MaxDay = 1
  MaxFaults = 0
  MaxAudits = 2
INVARIANT OnePendingCharge
CHECK_DEADLOCK FALSE
