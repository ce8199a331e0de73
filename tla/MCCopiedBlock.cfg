SPECIFICATION SpecH
CONSTANTS
  Depth = 3
  MaxWords = 4
  Value = {d1, d2}
INVARIANT CopiesBlock
