----------------------------- MODULE BlockPorts -----------------------------
(***************************************************************************)
(* What a block with N inputs and M outputs promises its algorithm and    *)
(* its neighbours, independently of how the ports are stored: each side   *)
(* is a vector of ports indexed 0..count-1, each with the declared value  *)
(* type and unit; the outputs start cleared; an access by an index below  *)
(* the count designates that port, an access by any other index is        *)
(* rejected with a fault, ends the algorithm and leaves every port as it  *)
(* was; a write replaces one output's signal wholesale.                   *)
(*                                                                         *)
(* Blockio (see BlockioRefinement) implements this specification: the     *)
(* storage kinds, owners and the uint8_t index conversion are its         *)
(* implementation detail.  The module is used as a property only: its     *)
(* constructor step constrains the new vectors without enumerating them.  *)
(***************************************************************************)
EXTENDS Integers, SIUnit

CONSTANTS
  Decls,       \* the declarations [N, M, Tin, Tout, Uin, Uout] a block may have
  Signal,      \* the signals a port may hold
  ZeroSignal,  \* the signal clear() leaves
  Indices      \* the indices callers ask for

Sides == {"in", "out"}
NoRef == [side |-> "none"]

(* The declaration of side s of declaration d. *)
Count(d, s) == IF s = "in" THEN d.N ELSE d.M
TypeOfSide(d, s) == IF s = "in" THEN d.Tin ELSE d.Tout
UnitsOfSide(d, s) == IF s = "in" THEN d.Uin ELSE d.Uout

VARIABLES
  decl,        \* the block's declaration
  constructed, \* the block exists
  ports,       \* for each side, its vector of ports [type, unit, sig]
  running,     \* the algorithm is executing
  ref,         \* the port the algorithm holds: side and index
  fault        \* the side of the last rejected access, or "none"

avars == <<decl, constructed, ports, running, ref, fault>>

(* v is the port vector declared for side s. *)
IsDeclaredVector(v, s) ==
  /\ DOMAIN v = 0..(Count(decl, s) - 1)
  /\ \A i \in DOMAIN v :
        /\ DOMAIN v[i] = {"type", "unit", "sig"}
        /\ v[i].type = TypeOfSide(decl, s)
        /\ UnitEqual(v[i].unit, UnitsOfSide(decl, s)[i])
        /\ v[i].sig \in Signal

Init ==
  /\ decl \in Decls
  /\ constructed = FALSE
  /\ ports = [s \in Sides |-> << >>]
  /\ running = FALSE
  /\ ref = NoRef
  /\ fault = "none"

(* The block is built with its declared ports, the outputs cleared. *)
Construct ==
  /\ ~constructed
  /\ constructed' = TRUE
  /\ DOMAIN ports' = Sides
  /\ \A s \in Sides : IsDeclaredVector(ports'[s], s)
  /\ \A i \in DOMAIN ports'["out"] : ports'["out"][i].sig = ZeroSignal
  /\ UNCHANGED <<decl, running, ref, fault>>

Run ==
  /\ constructed /\ ~running
  /\ running' = TRUE
  /\ UNCHANGED <<decl, constructed, ports, ref, fault>>

Return ==
  /\ running
  /\ running' = FALSE
  /\ ref' = NoRef
  /\ UNCHANGED <<decl, constructed, ports, fault>>

(* An access by an index below the count designates that port. *)
Access(s, k) ==
  /\ constructed
  /\ k < Count(decl, s)
  /\ ref' = [side |-> s, slot |-> k]
  /\ UNCHANGED <<decl, constructed, ports, running, fault>>

(* An access by any other index is rejected: the fault is raised, the    *)
(* algorithm is left without reference and ends, no port changes.        *)
Reject(s, k) ==
  /\ constructed
  /\ k >= Count(decl, s)
  /\ fault' = s
  /\ ref' = NoRef
  /\ running' = FALSE
  /\ UNCHANGED <<decl, constructed, ports>>

(* The algorithm replaces the signal of the output it holds. *)
Write ==
  /\ running
  /\ ref.side = "out"
  /\ ref.slot \in DOMAIN ports["out"]
  /\ \E sg \in Signal : ports' = [ports EXCEPT !["out"][ref.slot].sig = sg]
  /\ UNCHANGED <<decl, constructed, running, ref, fault>>

(* Between runs an upstream block replaces the signal of an input. *)
Feed ==
  /\ constructed /\ ~running
  /\ \E i \in DOMAIN ports["in"], sg \in Signal :
        ports' = [ports EXCEPT !["in"][i].sig = sg]
  /\ UNCHANGED <<decl, constructed, running, ref, fault>>

Next ==
  \/ Construct
  \/ Run
  \/ Return
  \/ \E s \in Sides, k \in Indices : Access(s, k) \/ Reject(s, k)
  \/ Write
  \/ Feed

Spec == Init /\ [][Next]_avars
=============================================================================
