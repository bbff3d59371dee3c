-------------------------- MODULE MCProxyTracking --------------------------
(* Clients of one container port behind docker-proxy. *)
EXTENDS ProxyTracking, TLC

CONSTANTS t1, t2

Symmetry == Permutations(Threads)
=============================================================================
