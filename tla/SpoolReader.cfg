SPECIFICATION Spec
CONSTANTS
    Lines <- ThreeLines
    Wide <- NoWide
    Undecodable <- NotARecord
    Passes = 2
INVARIANTS
    ReadsEveryWholeLine
    CountsTheDamage
CHECK_DEADLOCK FALSE
