------------------------------- MODULE MCLogger -------------------------------
(* Logger for TLC: two threads, and a threshold small enough that the buffers  *)
(* are swapped several times and a backlog builds up.                          *)
EXTENDS Logger
===============================================================================
