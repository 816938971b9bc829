---------------------------- MODULE MCNodeRegistry ----------------------------
(* Small instances of NodeRegistry for TLC: rows are interchangeable until    *)
(* they are inserted, so runs of safety properties identify states up to      *)
(* renaming them.                                                             *)
EXTENDS NodeRegistry, TLC

Symmetry == Permutations(Nodes)
================================================================================
