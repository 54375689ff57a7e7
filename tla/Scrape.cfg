SPECIFICATION Spec
CONSTANTS
  w1 = w1
  w2 = w2
  w3 = w3
  Scraper = {w1, w2, w3}
SYMMETRY AnyOrder
INVARIANTS
  ExposedIsFresh
