SPECIFICATION CacheSpec
CONSTANTS
  Handlers = {h1, h2}
  Repositories = {r1}
  Visibilities = {public, private}
  TTL = 2
  MaxSkew = 1
  MaxTime = 6
  Nothing = Nothing
SYMMETRY Symmetry
INVARIANTS
  CacheInv
  HitIsRecent
  WrongEntryMeansChange
