SPECIFICATION Spec
CONSTANTS
  Names = {n1, n2}
  Kinds = {"Stream", "KeyValue"}
  Shapes <- MCShapes
  DefaultAccount = "JS"
  MaxInflight = 2
  MaxRequests = 3
  MaxDrills = 1
PROPERTY FinalizersComeOff
CHECK_DEADLOCK FALSE
