\* The socket of a hub, which another thread shuts down; its peer reads on.
SPECIFICATION ReadingPeerSpec
CONSTANTS
  Owner = "Client"
  FreshMemory <- CleanMemory
  MaxTasks = 2
PROPERTIES
  ShutdownReturns
CHECK_DEADLOCK FALSE
