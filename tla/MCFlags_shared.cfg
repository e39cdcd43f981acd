\* Every dictionary of three methods over four flags, two bits, every
\* iteration order of flags.items(); after the allocation, every flags.h of
\* at most three lines.
CONSTANTS
  Methods <- SMethods
  Flags <- SFlags
  Tables <- STables
  Orders <- SOrders
  NameOrder <- SNameOrder
  Width = 2
  Headers <- SmallHeaders
SPECIFICATION Spec
INVARIANTS TypeOK NoSharedBit MaskMatchesBits HeaderRewritten
\* the script ends: flags.h rewritten, or sys.exit
CHECK_DEADLOCK FALSE
