\* A walk in either order and in pages of any of the sizes, over a ledger of
\* up to four transactions; each of the other lists, over three rows;
\* and names with characters that cannot be printed in different places.
SPECIFICATION MCSpec
CONSTANTS
  o1 = o1
  o2 = o2
  o3 = o3
  n1 = n1
  n2 = n2
  n3 = n3
  n4 = n4
  Output = {o1, o2, o3}
  Index <- MCIndex
  Order = {"desc", "asc"}
  Size = {0, 1, 2}
  MaxTx = 4
  Row = {r1, r2, r3}
  ListSize = {0, 1, 2}
  Span <- MCSpan
  Name = {n1, n2, n3, n4}
  Ends <- MCEnds
CHECK_DEADLOCK FALSE
INVARIANTS
  NoDuplicates
  Complete
  Simultaneous
  StayingRowsListedOnce
  MistakesFollowOthers
PROPERTIES
  WalkEnds
  ImplementsListing
