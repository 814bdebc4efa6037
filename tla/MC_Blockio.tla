----------------------------- MODULE MC_Blockio -----------------------------
(* Small instances of Blockio for TLC. *)
EXTENDS Blockio

(* Ports may be declared dimensionless or in volt. *)
MC_DeclUnits == {Dimensionless, Volt}

(* Callers pass in-range uint8_t indices around the port counts. *)
MC_CallerIndices == 0..(MaxPorts + 1)

(* Callers also pass an int that does not fit in uint8_t. *)
MC_CallerIndicesWide == (0..(MaxPorts + 1)) \cup {IndexWidth + 1}
=============================================================================
