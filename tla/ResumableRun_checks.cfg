\* One host and one approver over a plan with an approval between two effects,
\* and a check that the first is completed.
SPECIFICATION Spec
CONSTANTS
    Setups <- MCExample
    Host = {h1}
    Key = {k1}
    MaxVersion = 5
INVARIANT CheckTellsTrue
CHECK_DEADLOCK FALSE
