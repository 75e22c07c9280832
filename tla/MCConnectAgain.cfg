CONSTANTS
  Address = {"wellformed"}
  MaxArrivals = 1
  MaxConnects = 2
SPECIFICATION ClientSpec
PROPERTY ConnectTriesAgain
CHECK_DEADLOCK FALSE
