CONSTANTS
  Address = {"wellformed", "malformed"}
  MaxArrivals = 1
  MaxConnects = 2
SPECIFICATION ClientSpec
PROPERTY DisconnectLeavesTheServer
CHECK_DEADLOCK FALSE
