CONSTANTS
  w1 = w1
  w2 = w2
  o1 = o1
  i1 = i1
  i2 = i2
  NoWallet = NoWallet
  NoOpen = NoOpen
  NoIntent = NoIntent
  Wallets <- TwoWallets
  Place <- Listed
  OpenHandles <- OneOpen
  SeedOf <- OfSecond
  Intents = {i1, i2}
  Asks <- SmallAsks
  Elsewhere = {w1}
  MaxCalls = 1
  MaxUnseen = 1
  MaxDepth = 1
  MaxLosses = 0
SPECIFICATION Spec
INVARIANTS OpenBesideItsWallet
SYMMETRY Symmetry
