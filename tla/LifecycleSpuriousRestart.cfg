SPECIFICATION Spec
CONSTANTS
  Clients = {c1}
  DnsTasks = {t1, t2}
  Sockets = {s1, s2}
  NoTask = NoTask
  NoSocket = NoSocket
  CmdQueueSize = 2
  MaxEvents = 2
  Faults = {"recv"}
INVARIANTS
  OnlyFailedDnsRestarted
