SPECIFICATION Spec
CONSTANTS
  Texts <- MCTexts
  Positions = {0, 2, 1000}
  MaxOps = 2
  TMP_EVERY = 8
  Stale = "?"
  Objects <- MCObjects
  Calls <- MCCalls
INVARIANTS TypeOK EscapeFits TextRight SizeRight FileKept WritesInside ReadsInOrder
CHECK_DEADLOCK FALSE
