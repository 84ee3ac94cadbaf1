SPECIFICATION Spec
CONSTANTS
  a = a
  b = b
  c = c
  d = d
  e = e
  Contact <- People
  ByUserId <- Sorted
  Frequent <- OftenSpokenTo
  Known <- Hired
  ByUpdate <- LastChanged
  Searches <- UserSearches
  Joined <- InRooms
  MemberSince <- MembersIn
  IfAsync = FALSE
  Limit = 2
  MaxBuffer = 2
  Request = {r1, r2}
  None = None
  MaxEvents = 2
SYMMETRY Concurrent
INVARIANT NoMoreMeansAll
CHECK_DEADLOCK FALSE
