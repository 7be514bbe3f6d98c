SPECIFICATION ResponseSpec
CONSTANTS
  Values <- MCValues
  Height <- MCHeight
  Expected <- MCExpected
  Actual <- MCActual
  Controls <- MCControls
  Exchanges <- MCExchanges
  Filter <- MCFilter
  Reads <- MCReads
  Comments <- MCComments
  Trim <- MCTrim
INVARIANT EqualMeansMatched
INVARIANT FirstFitComplete
INVARIANT LoopsAgree
INVARIANT PlainVerdict
INVARIANT FullDepthIsIdentity
INVARIANT ReplayedMatches
INVARIANT VerdictExplained
INVARIANT TypesOnlyType
