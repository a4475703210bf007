------------------------------ MODULE MCVideo ------------------------------
(* Instances of VideoPipeline for TLC: a and b are good videos, c is not. *)
EXTENDS VideoPipeline, TLC

CONSTANTS a, b, c

AllFaults == {"api", "worker", "backend"}
=============================================================================
