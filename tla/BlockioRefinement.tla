-------------------------- MODULE BlockioRefinement --------------------------
(***************************************************************************)
(* Blockio implements the port contract BlockPorts.  The refinement       *)
(* mapping forgets how a side is stored (empty, single, array, tuple),    *)
(* the ports' owners and how a reference was obtained: the abstract       *)
(* vector of a side holds, at each slot of the storage, the storage's     *)
(* value type and the port's unit and signal.                             *)
(***************************************************************************)
EXTENDS Blockio

(* The abstract port at slot i of storage st. *)
AbsPort(st, i) ==
  [type |-> st.type, unit |-> st.elem[i].unit, sig |-> st.elem[i].sig]

AbsPorts ==
  [s \in Sides |-> [i \in DOMAIN StorageOf(s).elem |-> AbsPort(StorageOf(s), i)]]

(* The abstract reference is the index the caller asked for: the         *)
(* contract is that the reference designates the port of that index.      *)
AbsRef ==
  IF cursor = NoRef THEN NoRef ELSE [side |-> cursor.side, slot |-> cursor.req]

AbsFault == IF fault = NoFault THEN "none" ELSE fault.side

A == INSTANCE BlockPorts
       WITH ports <- AbsPorts, ref <- AbsRef, fault <- AbsFault,
            Indices <- CallerIndices \cup 0..MaxPorts

(* Blockio, with every instantiation, accessor and fault, behaves as the  *)
(* port contract: construction yields the declared port vectors with the  *)
(* outputs cleared, every accessor (single, template index, runtime       *)
(* index) designates the port of the index asked for or raises the fault, *)
(* and a fault in the middle of the algorithm changes no port.            *)
Refines == A!Spec
=============================================================================
