\* Three acts on a page of two fields, two buttons, a select and a date.
SPECIFICATION InputSpec
CONSTANTS
    Field = {f, g}
    Button = {b, c}
    Label = {l, m}
    Value = {v, w}
    None = None
    FirstCandidate <- Roles
    MaxActs = 3
SYMMETRY Symmetry
INVARIANTS OrderKept EachActOnce ShownIsKnown
CHECK_DEADLOCK FALSE
