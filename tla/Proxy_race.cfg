SPECIFICATION Spec
CONSTANTS
  Writers = {w1, w2}
  Walkers = {c1}
  Visitors = {}
  Requests = {a, b}
  Offsets = {}
  MaxEntries = 3
INVARIANT WrittenAtItsOffset
