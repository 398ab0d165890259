------------------------------- MODULE MCSQueue -------------------------------
(* SQueue for TLC: three threads, enough for a consumer that sleeps, one that  *)
(* overtakes it and a producer, or for two producers and a sleeper.            *)
EXTENDS SQueue
===============================================================================
