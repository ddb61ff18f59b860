\* Two sessions interleaved.
SPECIFICATION Spec
CONSTANTS
  Parcelas = {p1}
  Charges = {c1, c2}
  Workers = {w1, w2}
  None = None
  Due <- MCDue
  Carencia = 1
  Validade = 2
  HasRates = TRUE
  MaxDay = 2
  MaxFaults = 1
  MaxAudits = 2
SYMMETRY IdSymmetry
INVARIANTS
  PaidIsBacked
  StrayChargesAreFailures
  PaymentFindsItsCharge
  NoRatesWithinGrace
CHECK_DEADLOCK FALSE
