\* Each part of Metering on its own: two openers and two closers over two
\* broken connections, two resets over three failures of two webhooks, four
\* mints around a quota of 1, and a queue of two events with two takers.
SPECIFICATION MCSpec
CONSTANTS
  b1 = b1
  b2 = b2
  b3 = b3
  b4 = b4
  Opener = {op1, op2}
  Closer = {cl1, cl2}
  Nobody = nobody
  MaxDrops = 2
  Webhook = {w1, w2}
  Resetter = {r1, r2}
  Build = {b1, b2, b3, b4}
  Tokens <- MCTokens
  Quota = 1
  Tier1 = 1
  Tier2 = 2
  MaxFailures = 3
  Event = {e1, bad}
  Bad = {bad}
  Taker = {t1, t2}
  MaxPushes = 2
CHECK_DEADLOCK FALSE
INVARIANTS
  FailuresCounted
  QuotaExceededByOpen
  EventsAccounted
PROPERTY
  CallersAnswered
