CONSTANTS
  MaxSats = 3
  MaxPrinted = 6
  Modulus = 10
  Amounts = {0, 1, 3, 5, 12}
  MaxLines = 6
  Legs <- SmallLegs
  MaxItems = 2
  Decimals <- SmallDecimals
  MaxDecimals = 4
SPECIFICATION Spec
INVARIANTS TypeOK ReadingIsRight FiguresBalance AmountsExact SaidOfItsItem
PROPERTY AdditionsExact
CHECK_DEADLOCK FALSE
