-------------------------- MODULE MCServerLifecycle --------------------------
(* The life cycle on a small instance. *)
EXTENDS ServerLifecycle, TLC

MCSymmetry == Permutations(DnsTasks) \cup Permutations(Sockets) \cup Permutations(Clients)
==============================================================================
