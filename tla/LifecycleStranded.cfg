SPECIFICATION Spec
CONSTANTS
  Clients = {c1}
  DnsTasks = {t1, t2}
  Sockets = {s1}
  NoTask = NoTask
  NoSocket = NoSocket
  CmdQueueSize = 2
  MaxEvents = 2
  Faults = {}
INVARIANTS
  NoStrandedClient
