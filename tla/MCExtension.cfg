CONSTANTS
    Pages = {p, q}
    Requests = {r1}
    NoRequest = none
    MaxCalls = 4
SPECIFICATION Spec
CHECK_DEADLOCK FALSE
SYMMETRY Symmetry
INVARIANTS HandlersFollowTheStatus PairedPagesAreKnown AnsweredTwiceOnlyByOverlap
