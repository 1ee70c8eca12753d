\* Two acts are enough for one to be taken for a repetition of the other.
SPECIFICATION InputSpec
CONSTANTS
    Field = {f, g}
    Button = {b, c}
    Label = {l, m}
    Value = {v, w}
    None = None
    FirstCandidate <- Roles
    MaxActs = 2
PROPERTIES OnlyIdenticalDropped
CHECK_DEADLOCK FALSE
