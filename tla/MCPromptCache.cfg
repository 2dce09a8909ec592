CONSTANTS
    Callers = {c1, c2, c3}
    Keys = {k1, k2, k3}
    Texts = {t1, t2}
    Capacity = 2
    EntryIds = {e1, e2, e3, e4, e5}
    MaxFlushes = 1
SPECIFICATION Spec
SYMMETRY Symmetry
INVARIANTS
    Coherent
    HitIsAtomic
PROPERTIES
    ImplementsLRU
