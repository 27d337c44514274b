CONSTANTS
  w1 = w1
  w2 = w2
  s1 = s1
  s2 = s2
  NoWallet = NoWallet
  NoStep = NoStep
  Wallets = {w1, w2}
  Steps = {s1, s2}
  MaxDepth = 2
  MaxLosses = 1
  MaxTurns = 0
SPECIFICATION Spec
SYMMETRY Symmetry
VIEW Stepping
INVARIANTS OneReadingAtATime EndedTruthfully
