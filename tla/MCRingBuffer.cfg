CONSTANTS
  Items = {a, b}
  Zero = zero
  Size = 1
  MaxLen = 5
  MaxN = 3
SPECIFICATION Spec
PROPERTY ImplementsDeque
