SPECIFICATION Spec
CONSTANTS
    Files = {f, g}
    Sessions = {s}
    Nothing = Nothing
    Damaged = {g}
    Truncated = {g}
    Length = 2
    BatchSize = 2
    MarkedCaptures = 3
    MaxOpens = 2
    MaxNotes = 3
    f = f
    g = g
    s = s
INVARIANTS OneTimeline NotesKept NoticesAreTrue
