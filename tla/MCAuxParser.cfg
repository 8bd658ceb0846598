SPECIFICATION Spec
CONSTANTS
  Base = 4
  SOM = 3
  MIN_LENGTH = 1
  max_buffer = 5
  max_parser_buffer = 6
  MaxStream = 8
INVARIANT NothingPending
INVARIANT Canonical
INVARIANT AllFindAll
CHECK_DEADLOCK FALSE
