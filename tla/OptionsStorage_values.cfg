SPECIFICATION Spec
CONSTANTS
    Handle = {h1, h2}
    Object = {o1, o2, o3}
    Order = {7}
    Tag = {"t"}
    Key = {"k"}
    Text = {"a", "b"}
    Attempts = {2}
    MaxTags = 1
SYMMETRY Symmetry
INVARIANTS
    TypeOK
    WritesAlone
PROPERTIES
    IndependentValues
