SPECIFICATION FairSpec
CONSTANTS
  Keys <- MCKeys
  MaxLen = 5
  MaxTotal = 5
  Word = 80
  MaxEntries = 5
  Junk = Junk
INVARIANTS
  InScratch
  Permutation
  InListingOrder
PROPERTIES
  Returns
CHECK_DEADLOCK FALSE
