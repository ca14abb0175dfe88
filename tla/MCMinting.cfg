\* Seventeen scripts with a burn by another or none, charged or not, over five
\* slots and two submissions; and the plainest script with every pair of
\* metadata values, where integers have four bits.
SPECIFICATION MCSpec
CONSTANTS
  LongText = {"long"}
  Labels = {"721"}
  Half = 8
  Script <- MCScript
  Burn <- MCBurn
  Cargo <- MCCargo
  ServerKeys <- MCServerKeys
  ServerRoot <- MCServerRoot
  Pay <- MCPay
  Stray <- MCStray
  Owned <- MCOwned
  Call = {c1, c2}
  LastSlot = 4
CHECK_DEADLOCK FALSE
INVARIANTS
  MintTypeOK
  PolicyKept
  BuiltIsValid
  AnswerTrue
  CargoKept
