SPECIFICATION Spec
CONSTANT MaxStarts = 4
INVARIANTS OneReceiver PortIsServed
PROPERTIES StopEnds
CHECK_DEADLOCK FALSE
