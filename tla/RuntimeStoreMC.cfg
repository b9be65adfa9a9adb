SPECIFICATION Spec
CONSTANTS
  Publishers = {p1, p2}
  Contents = {c1, c2}
  MaxAttempts = 3
  Families = {"slot", "qualification", "attempt"}
  Interruptions = 3
  PowerLosses = 2
  None = None
SYMMETRY Interchangeable
INVARIANTS ToldIsKept DestinationStaysAbsent InventoryStaysReadable
PROPERTY ImplementsLog
