CONSTANTS
  x = x
  y = y
  z = z
  o1 = o1
  o2 = o2
  o3 = o3
  o4 = o4
  Address = {x, y, z}
  Output = {o1, o2, o3, o4}
  Place <- MCPlace
  Owner <- MCOwner
  Coin <- MCCoin
  Ask = {0, 1, 4, 6}
  Cap = {1, 2}
  PageSize = 1
  MinUtxo = 2
SPECIFICATION Spec
CHECK_DEADLOCK FALSE
INVARIANTS
  NoDuplicates
  RefusalGenuine
  SelectionPays
