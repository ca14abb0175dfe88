\* Every choice of rates of two applications, two requests in flight.
SPECIFICATION Spec
CONSTANTS
  u1 = u1
  u2 = u2
  a1 = a1
  a2 = a2
  Idle = Idle
  Owner <- MCOwner
  Revocable = {a1}
  User = {u1, u2}
  App = {a1, a2}
  Request = {r1, r2}
  Rate <- MCRate
  NoRate = NoRate
  DefaultRate <- MCDefaultRate
  MaxHits = 3
  MaxResend = 1
  Horizon = 3
INVARIANTS
  WindowBudget
  CounterEnds
  OnlyOwnersAreCounted
  BurstBound
PROPERTY
  WindowCloses
