----------------------------- MODULE MCLifecycle -----------------------------
(* Lifecycle for TLC: two pools, of the four that are started and stopped one *)
(* after the other, with two threads each.                                    *)
EXTENDS Lifecycle

\* Linux gives a signal sent to the process to its main thread when it can.
OnlyMain == {Main}
AnyThread == Workers \cup {Main, Writer}
===============================================================================
