CONSTANTS
  Item = {a, b, c}
  Capacity = 3
  Nothing = Nothing
SPECIFICATION Spec
PROPERTIES ImplementsFifo
