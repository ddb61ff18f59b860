\* Two sessions on the simulations of two tenants.
SPECIFICATION Spec
CONSTANTS
    Tenants = {t1, t2}
    Workers = {w1, w2}
    plain = plain
    full = full
    Terms = {plain, full}
    Fills <- MCFills
    Keys = {k1}
    NoKey = NoKey
    MaxSims = 2
SYMMETRY SessionSymmetry
INVARIANTS CodesFollowCommits KeyedOnce ProposalQuotesSimulation ReplacedWhole
    SomeoneGoesOn
PROPERTY ImplementsBook
