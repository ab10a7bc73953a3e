SPECIFICATION Spec
CONSTANTS
  Clients = {c1, c2}
  DnsTasks = {t1, t2}
  Sockets = {s1}
  NoTask = NoTask
  NoSocket = NoSocket
  CmdQueueSize = 2
  MaxEvents = 2
  Faults = {"recv", "bind"}
SYMMETRY MCSymmetry
INVARIANTS
  NoIdleServer
  BitsMatchHandles
