CONSTANTS
  p1 = p1
  p2 = p2
  Requests = {r1, r2}
  Providers = {p1, p2}
  Candidates <- MCCandidates
  Usable = {p1, p2}
  Matching = {p1}
  Threshold = 2
  Earlier = 1
  Items = 2
  Retries = 1

SPECIFICATION Spec

INVARIANTS
  NothingIsLeft

SYMMETRY MCSymmetry
