SPECIFICATION Spec
CONSTANTS
  c = c
  m = m
  n = n
  Caps = {c}
  Leaves = {m, n}
  Refs <- BothMedia
  Pins <- TwoPins
  Manifest <- TwoManifests
  Getters = {}
  Syncers = {"sync"}
  MaxStarts = 1
  MaxWipes = 0
  Masters = {"m1", "m2"}
  MaxChanges = 1
INVARIANTS
  GraphOfTheAggregate
CHECK_DEADLOCK FALSE
