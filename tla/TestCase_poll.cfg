SPECIFICATION FairSpec
CONSTANTS
  Responses <- MCResponses
  NoResp = NoResp
  ok = ok
  wait = wait
  bad = bad
  json = json
  binary = binary
  xslt = xslt
  NoFormat = NoFormat
  MaxTime = 4
  MaxPolls = 2
  Formats = {json, binary, xslt}
  PreProcessOnly = {xslt}
  CaseSpecs <- AllCases
INVARIANT CollectComplete
INVARIANT NoPrematureFailure
INVARIANT BreakEndsTheCase
PROPERTY ImplementsProtocol
PROPERTY Terminates
