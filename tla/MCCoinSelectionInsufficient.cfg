\* The error message of the code against every choice of outputs: violated.
SPECIFICATION Spec
CONSTANTS
  a = a
  b = b
  Utxo = {u1, u2}
  Asset = {a, b}
  Output <- MCValidOutput
  Request <- MCRequest
  Cap = {2}
  MinUtxo <- MCMinUtxo
CHECK_DEADLOCK FALSE
INVARIANT
  InsufficientIsTrue
