SPECIFICATION ScopedSpec
CONSTANTS
    short = short
    about = about
    without = without
    d1 = d1
    d2 = d2
    Decisions = {d1, d2}
    Owner = d1
    Kinds = {"request", "output"}
    Texts = {short, about, without}
    Large = {about, without}
    Mentions = {about}
    Scrubbed <- ScrubbedText
    Ids = {i1, i2, i3}
    Archives = {b1, b2}
    Inline = inline
    Nothing = nothing
    Missing = missing
    Partial = partial
    Damaged = damaged
    MaxCalls = 5
    MaxFaults = 2
SYMMETRY Symmetry
INVARIANTS RowsReadable NothingLeft
PROPERTY Promise
