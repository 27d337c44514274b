CONSTANTS
  h1 = h1
  h2 = h2
  s1 = s1
  NoHandle = NoHandle
  NoSigner = NoSigner
  Handles = {h1, h2}
  Signers = {s1}
  MaxDepth = 1
  MaxLosses = 0
  MaxMoves = 0
SPECIFICATION Spec
INVARIANT EndedLeavesTheScreen
