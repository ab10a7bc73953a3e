SPECIFICATION SendFairSpec
CONSTANTS
  Clients = {c1}
  DnsTasks = {t1, t2}
  Sockets = {s1}
  NoTask = NoTask
  NoSocket = NoSocket
  CmdQueueSize = 1
  MaxEvents = 1
  Faults = {"recv", "late"}
PROPERTIES
  ShutdownCompletes
  ServersFollow
