SPECIFICATION LogSpec
CONSTANTS
    c1 = c1  c2 = c2
    Command = {c1, c2}
    Term = {1, 2}
    MaxLength = 3
INVARIANT CompactionTransparent
