CONSTANTS
  h1 = h1
  s1 = s1
  NoHandle = NoHandle
  NoSigner = NoSigner
  Handles = {h1}
  Signers = {s1}
  MaxDepth = 2
  MaxLosses = 1
  MaxMoves = 0
SPECIFICATION FairSpec
INVARIANTS TypeOK ErrorsAnswerable
PROPERTY RequestsGetShown
