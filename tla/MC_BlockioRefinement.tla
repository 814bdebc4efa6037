------------------------- MODULE MC_BlockioRefinement -------------------------
(* The refinement of BlockPorts by Blockio on the instances of MC_Blockio. *)
EXTENDS MC_Blockio, BlockioRefinement
=============================================================================
