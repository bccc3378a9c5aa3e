\* Arrays of up to two elements that are rewritten and removed; the calls end with MaxCalls.
SPECIFICATION Spec
CONSTANTS
    Nodes = {a}
    Names <- TwoIndices
    Values = {u, v}
    MaxLength = 2
    MaxCalls = 4
    Size = Size
    None = None
SYMMETRY ValueSymmetry
INVARIANTS ArraysReadBack ElementsReadBack
CHECK_DEADLOCK FALSE
