\* A slow and a fast application share the counter of their user: violated.
SPECIFICATION Spec
CONSTANTS
  u1 = u1
  u2 = u2
  a1 = a1
  a2 = a2
  Idle = Idle
  Owner <- MCOwner
  Revocable = {}
  User = {u1}
  App = {a1, a2}
  Request = {r1}
  Rate <- MCRateSlow
  NoRate = NoRate
  DefaultRate <- MCDefaultRate
  MaxHits = 3
  MaxResend = 0
  Horizon = 9
INVARIANT
  RateHonoured
