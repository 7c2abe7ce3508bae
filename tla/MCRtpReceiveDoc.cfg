CONSTANT MaxQueue = 2
SPECIFICATION Spec
INVARIANT FullControl
CHECK_DEADLOCK FALSE
