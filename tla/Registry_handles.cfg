SPECIFICATION Spec
CONSTANTS
    Thread = {t1, t2}
    Handle = {h1, h2}
    Object = {o1, o2, o3, o4}
    Name = {A, B, C}
SYMMETRY Symmetry
INVARIANTS
    NamesUnique
    OwnedWhileRegistered
    SnapshotStaysTrue
    FilterSeesOneRegistry
