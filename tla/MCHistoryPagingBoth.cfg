SPECIFICATION Spec
CONSTANTS
  alice = alice
  bob = bob
  carol = carol
  sam = sam
  x = x
  y = y
  z = z
  hall = hall
  loft = loft
  barn = barn
  Peer <- Peers
  Room <- Rooms
  Anyone = Anyone
  Searcher = sam
  Part <- Pieces
  Parts <- PlainIds
  Message <- Texts
  Asked <- BothSides
  Limit = 2
  MaxMessages = 4
SYMMETRY Interchangeable
INVARIANT RestIsShown
CHECK_DEADLOCK FALSE
