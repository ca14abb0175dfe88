SPECIFICATION Spec
CONSTANTS
  NoChange = NoChange
  Name <- MCName
  HexName = {"label"}
  BlankName = {"blank"}
  Tracking = "tracking"
  MinUtxo <- MCMinUtxo
  MaxFee = 12
  OutputFee = 2
  Wide = 16
  WideFee = 1
  MinUTxOValue = 0
  Half = 3
  Request <- MCRequest
  Commission = {0, 2}
INVARIANT OnlyBurntIsMissing
CHECK_DEADLOCK FALSE
