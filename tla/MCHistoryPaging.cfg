SPECIFICATION Spec
CONSTANTS
  alice = alice
  bob = bob
  carol = carol
  sam = sam
  x = x
  y = y
  z = z
  hall = hall
  loft = loft
  barn = barn
  Peer <- Peers
  Room <- Rooms
  Anyone = Anyone
  Searcher = sam
  Part <- Pieces
  Parts <- SomeSplit
  Message <- TextsAndFiles
  Asked <- AnyRequest
  Limit = 2
  MaxMessages = 5
SYMMETRY InterchangeableOthers
INVARIANTS TypeOK PagesTile WholeAnswerCountsAll CountsAreBounded
CHECK_DEADLOCK FALSE
