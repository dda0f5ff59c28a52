----------------------------- MODULE MCDominance -----------------------------
(* All graphs of three blocks, each with up to two successors, with and    *)
(* without splitting the critical edges.                                   *)
EXTENDS Dominance
=============================================================================
