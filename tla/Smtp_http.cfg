SPECIFICATION HttpSpec
CHECK_DEADLOCK FALSE
CONSTANTS
  a = a
  b = b
  Sessions = {s1, s2}
  Addresses = {a, b}
  NoAddress = NoAddress
  MaxMessages = 3
  MaxRcpts = 2
  Contents <- MCContents
  Depth <- MCDepth
  Mails <- MCMails
  Queries <- MCQueries
SYMMETRY Symmetry
INVARIANT EnvelopeIntact
INVARIANT AcceptedIsStored
PROPERTY ImplementsLog
PROPERTY ShownLeadsThere
PROPERTY EverythingReachable
