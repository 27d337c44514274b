CONSTANTS
  w1 = w1
  s1 = s1
  s2 = s2
  NoWallet = NoWallet
  NoStep = NoStep
  Wallets = {w1}
  Steps = {s1, s2}
  MaxDepth = 1
  MaxLosses = 1
  MaxTurns = 1
SPECIFICATION FairSpec
INVARIANTS TypeOK EndsOnce StepIsFollowed
PROPERTIES StepNotDisplaced StepsEnd ViewCatchesUp
