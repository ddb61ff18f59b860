\* Two edits of one draft that overlap.
SPECIFICATION Spec
CONSTANTS
    Tenants = {t1}
    Workers = {w1, w2}
    plain = plain
    full = full
    Terms = {plain, full}
    Fills <- MCFills
    Keys = {k1}
    NoKey = NoKey
    MaxSims = 2
SYMMETRY SessionSymmetry
INVARIANT FullReplace
