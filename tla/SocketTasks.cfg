\* The socket of a UserConnection, which its own thread lets go of.
SPECIFICATION LiveSpec
CONSTANTS
  Owner = "UserConnection"
  FreshMemory <- AnyMemory
  MaxTasks = 4
INVARIANTS
  SocketTypeOK
  NoDataStranded
PROPERTIES
  GracelessEnds
CHECK_DEADLOCK FALSE
