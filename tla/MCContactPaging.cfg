SPECIFICATION Spec
CONSTANTS
  a = a
  b = b
  c = c
  d = d
  e = e
  Contact <- People
  ByUserId <- Sorted
  Frequent <- OftenSpokenTo
  Known <- Hired
  ByUpdate <- LastChanged
  Searches <- AnySearches
  Joined <- InRooms
  MemberSince <- MembersIn
  IfAsync = TRUE
  Limit = 2
  MaxBuffer = 2
  Request = {r1, r2}
  None = None
  MaxEvents = 2
SYMMETRY Concurrent
INVARIANT TypeOK PagesTile HasMoreIsRight JoinsSkipNobody CacheCoversFrequent
