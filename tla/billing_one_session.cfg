\* One session at a time, failures at any step, late and repeated webhooks.
SPECIFICATION FairSpec
CONSTANTS
  Parcelas = {p1, p2}
  Charges = {c1, c2}
  Workers = {w1}
  None = None
  Due <- MCDue
  Carencia = 0
  Validade = 1
  HasRates = TRUE
  MaxDay = 2
  MaxFaults = 1
  MaxAudits = 2
INVARIANTS
  TypeOK
  OnePendingCharge
  ProcessedOnce
PROPERTIES
  NoChargeAfterCancel
  ImplementsLedger
  PaymentRecorded
CHECK_DEADLOCK FALSE
