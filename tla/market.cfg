\* Two sessions on two requests or runs of the daily job, three days.
SPECIFICATION Spec
CONSTANTS
    Workers = {w1, w2}
    MaxRequests = 2
    m1 = m1
    m2 = m2
    brands = brands
    cdi = cdi
    ipca = ipca
    Prices = {m1, m2}
    Lists = {brands}
    Providers <- MCProviders
    Answers <- MCAnswers
    PriceTtl = 1
    ListTtl = 3
    MaxNow = 4
    MaxChanges = 1
    Stock = {"reservado"}
    MaxVehicles = 1
    Codes <- MCCodes
    FallbackCodes = {cdi}
    MaxAge <- MCMaxAge
    KeptChecks = 1
SYMMETRY Symmetry
INVARIANTS QuotesAreRecent SoldStaysSold PricedAsBrought StaleIsTold
CHECK_DEADLOCK FALSE
