SPECIFICATION Spec
CONSTANTS
  Rows = 3
  Cols = 3
  Glyph = {a, blank}
  Blank = blank
INVARIANTS
  TypeOK
  CursorInItsRow
PROPERTIES
  NextScreenKept
  ImplementsTerminal
