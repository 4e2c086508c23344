SPECIFICATION Spec
CONSTANTS
  Keys = {"ext", "image", "wide"}
  Missing = "-"
  AnyValue = "*"
  Values = {"pdf", "png"}
  Defs <- defs
  Bindings <- bindings
  Targets <- targets
  Tables <- tables
  MaxDepth = 5
  Iterate = Iterate
  NoCap = NoCap
CHECK_DEADLOCK FALSE
INVARIANTS
  HopsAreProved
