SPECIFICATION Spec
CONSTANTS
  c = c
  m = m
  n = n
  Caps = {c}
  Leaves = {m, n}
  Refs <- BothMedia
  Pins <- TwoPins
  Manifest <- TwoManifests
  Getters = {}
  Syncers = {"sync"}
  MaxStarts = 2
  MaxWipes = 0
  Masters = {"m1"}
  MaxChanges = 1
INVARIANTS
  CapsHaveTheirMedia
CHECK_DEADLOCK FALSE
