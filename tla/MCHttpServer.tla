---------------------------- MODULE MCHttpServer ----------------------------
(* Builds and uses of HttpServer, each explored on its own from its own     *)
(* initial states.                                                          *)
EXTENDS HttpServer

Build(slots, purge, block, uses, faults) ==
  [slots |-> slots, lru_purge |-> purge, blocking |-> block,
   uses |-> uses, faults |-> faults]

MCConfigs ==
  { Build(1, FALSE, FALSE, {"close", "async"}, {"send", "accept"}),
    Build(1, TRUE, FALSE, {"work", "async"}, {}),
    Build(1, TRUE, FALSE, {"close", "self"}, {"accept"}),
    Build(1, TRUE, TRUE, {"work", "close", "async"}, {}),
    Build(2, TRUE, TRUE, {"async"}, {}),
    Build(2, TRUE, FALSE, {}, {}) }

(* A build that waits for places, with a handler that closes its session.   *)
MCSelfClose == { Build(1, FALSE, TRUE, {"work", "self"}, {}) }
=============================================================================
