CONSTANTS
  h1 = h1
  s1 = s1
  s2 = s2
  NoHandle = NoHandle
  NoSigner = NoSigner
  Handles = {h1}
  Signers = {s1, s2}
  MaxDepth = 1
  MaxLosses = 1
  MaxMoves = 2
SPECIFICATION Spec
SYMMETRY Symmetry
VIEW ErrorLine
INVARIANT ErrorsAnswerable
