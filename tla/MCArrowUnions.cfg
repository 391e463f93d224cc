CONSTANTS
  Numerals <- MCNumerals
  Int32Max = 6
  InlineSize = 2
  BlockSize = 7
  Types <- MCTypes
  Sizes <- MCSizes
  Junk <- MCJunk
  Ints <- MCInts
  Strings <- MCStrings
  Counts <- MCCounts
  MaxCalls = 4
SPECIFICATION MCSpec
CHECK_DEADLOCK FALSE
INVARIANT
  UnionElementsHaveValues
