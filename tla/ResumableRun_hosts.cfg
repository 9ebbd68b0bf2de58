\* Two hosts and two approvers over one plan, taken from a set of plans.
SPECIFICATION Spec
CONSTANTS
    Setups <- MCSetups
    Host = {h1, h2}
    Key = {k1, k2}
    MaxVersion = 5
SYMMETRY Symmetry
INVARIANTS
    TypeOK
    InOrder
    ReportTells
PROPERTIES
    OneWriterWins
    NotRepeated
CHECK_DEADLOCK FALSE
