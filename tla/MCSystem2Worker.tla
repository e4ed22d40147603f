--------------------------- MODULE MCSystem2Worker ---------------------------
(* Instances of System2Worker: services, loop workers and a --once worker.  *)
EXTENDS System2Worker

CONSTANTS s1, s2, w1, w2, o1
=============================================================================
