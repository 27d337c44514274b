CONSTANTS
  h1 = h1
  h2 = h2
  s1 = s1
  NoHandle = NoHandle
  NoSigner = NoSigner
  Handles = {h1, h2}
  Signers = {s1}
  MaxDepth = 2
  MaxLosses = 1
  MaxMoves = 0
SPECIFICATION HistorySpec
SYMMETRY Symmetry
VIEW Control
INVARIANTS SheetCoherent OnePollAtATime ScreenIsClaimed ApprovedStaysOffTheQueue
PROPERTY ContractKept
