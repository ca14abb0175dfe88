\* Every list of up to three outputs, every request, with and without the top-up.
SPECIFICATION Spec
CONSTANTS
  a = a
  b = b
  Utxo = {u1, u2, u3}
  Asset = {a, b}
  Output <- MCOutput
  Request <- MCRequest
  Cap = {1, 2, 3}
  MinUtxo <- MCMinUtxo
CHECK_DEADLOCK FALSE
INVARIANTS
  PlainSelects
  ChangeAdmissible
  ValueConserved
  WithinCap
  TopUpPays
  ExhaustionGenuine
PROPERTY
  Terminates
