SPECIFICATION Spec
CONSTANTS
  Clients = {c1}
  DnsTasks = {t1, t2}
  Sockets = {s1, s2}
  NoTask = NoTask
  NoSocket = NoSocket
  CmdQueueSize = 1
  MaxEvents = 1
  Faults = {"list", "send", "late", "create", "socket", "bind", "recv", "hang", "httpd", "grace"}
SYMMETRY MCSymmetry
INVARIANTS
  LifecycleSafe
  SocketOwned
  
PROPERTIES
  ImplementsService
