SPECIFICATION Spec
CONSTANTS
    Lines <- ThreeLines
    Wide <- WideU
    Undecodable <- NotARecord
    Passes = 1
INVARIANTS
    ReadsEveryWholeLine
CHECK_DEADLOCK FALSE
