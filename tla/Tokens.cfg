SPECIFICATION Spec
CONSTANTS
  Nicknames = {n1}
  People = {h1, h2}
  Requests = {r1, r2}
  MaxPairs = 3
SYMMETRY Symmetry
INVARIANTS
  TypeOK
  OneOwner
  OneSuccessor
  GivenIsListed
PROPERTIES
  SpentYieldsNothing
