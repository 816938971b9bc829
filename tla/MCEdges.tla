-------------------------------- MODULE MCEdges --------------------------------
(* Two connections of one session on two workers.                             *)
EXTENDS Edges

CONSTANTS k1, k2, b1, b2, s1

MCOpen == [k \in {k1, k2} |-> s1]
MCServes == [k \in {k1, k2} |-> IF k = k1 THEN b1 ELSE b2]
================================================================================
