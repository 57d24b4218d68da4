-------------------------------- MODULE MCPool --------------------------------
(* The instances of ThreadPool that TLC checks.  Worker descriptors and      *)
(* clients are interchangeable, so the runs without liveness properties use  *)
(* Symmetry.                                                                 *)
EXTENDS ThreadPool, TLC

CONSTANTS d1, d2, d3, c1, c2

TwoThreads == {d1, d2}
ThreeThreads == {d1, d2, d3}
TwoClients == {c1, c2}
OneClient == {c1}

Symmetry == Permutations(Threads) \cup Permutations(Clients)

AllFaults == {"malloc", "calloc", "pthread_create", "spurious"}
NoFaults == {}
Spurious == {"spurious"}
BothFlags == {"wait", "force"}
WaitOnly == {"wait"}
ForceOnly == {"force"}
===============================================================================
