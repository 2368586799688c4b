CONSTANTS
  p1 = p1
  Tgids = {p1}
  TableMax = 2
  Lives = 1
  LoadFails = FALSE
SPECIFICATION KernelSpec
INVARIANTS NoGhosts
CHECK_DEADLOCK FALSE
