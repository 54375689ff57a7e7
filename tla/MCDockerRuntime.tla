--------------------------- MODULE MCDockerRuntime ---------------------------
(* One sandbox and three threads, which are interchangeable. *)
EXTENDS DockerRuntime, TLC

CONSTANTS s1, t1, t2, t3

Threads == Permutations(Thread)
=============================================================================
