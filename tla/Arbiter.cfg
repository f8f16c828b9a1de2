\* Two instances with holes, lost offers and one step back, a window of two.
CONSTANTS
  Window = 2
  MaxId = 4
  WireCap = 1
  MaxRewinds = 1
SPECIFICATION Spec
INVARIANT VerdictIsTrue
PROPERTY WindowIsEnough
\* Both instances may have reached the bound of ids.
CHECK_DEADLOCK FALSE
