SPECIFICATION FairSpec
CONSTANTS
  r1 = r1
  r2 = r2
  r3 = r3
  r4 = r4
  ours = ours
  asked = asked
  altered = altered
  Requests = {r1, r2, r3, r4}
  Keys = {ours}
  Key <- OneKey
  Body <- OneAltered
  NoRecord = NoRecord
  Nobody = Nobody
CHECK_DEADLOCK FALSE
INVARIANTS
  OverlapOnlyAfterFailure
  BilledTwiceOnlyAfterFailure
  StraysAreRetries
  NoBorrowedAnswer
PROPERTIES
  KeyIsFreed
