SPECIFICATION FairSpec
CONSTANTS
  Writers = {w1}
  Walkers = {c1}
  Visitors = {c2}
  Requests = {a, b}
  Offsets <- MCOffsets
  MaxEntries = 3
PROPERTY ImplementsLog
PROPERTY EveryRequestRead
