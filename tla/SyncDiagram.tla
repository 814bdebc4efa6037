----------------------------- MODULE SyncDiagram -----------------------------
(***************************************************************************)
(* What the source -> DeMux -> Mul diagram promises when its time domain  *)
(* runs the blocks in topological order: the synchronous semantics of a   *)
(* data-flow diagram.  Each cycle the source takes one sample stamped     *)
(* with the cycle, then the diagram's output becomes the product of that  *)
(* sample's two components, with its timestamp, in one step.  DeMux, the  *)
(* wiring and the order of the run() calls are not visible.  Diagram (see *)
(* DiagramRefinement) implements this specification.                      *)
(***************************************************************************)
EXTENDS Integers

CONSTANTS
  Comps,     \* the component values a sample may have
  MaxCycle   \* where the clock saturates

VARIABLES
  sample,    \* the source's current sample: a vector and its timestamp
  out,       \* the diagram's output signal
  clock,     \* the cycle counter
  phase      \* "wait" for the sample, "sampled", or "done" with the cycle

svars == <<sample, out, clock, phase>>

Init ==
  /\ sample = [value |-> [i \in 0..1 |-> 0], ts |-> 0]
  /\ out = [value |-> 0, ts |-> 0]
  /\ clock = 0
  /\ phase = "done"

(* A new cycle begins once the last one is done. *)
Tick ==
  /\ phase = "done"
  /\ clock' = IF clock < MaxCycle THEN clock + 1 ELSE clock
  /\ phase' = "wait"
  /\ UNCHANGED <<sample, out>>

(* The source takes this cycle's sample. *)
Sample ==
  /\ phase = "wait"
  /\ \E v \in [0..1 -> Comps] : sample' = [value |-> v, ts |-> clock]
  /\ phase' = "sampled"
  /\ UNCHANGED <<out, clock>>

(* The output becomes the product of the sample's components. *)
Produce ==
  /\ phase = "sampled"
  /\ out' = [value |-> sample.value[0] * sample.value[1], ts |-> sample.ts]
  /\ phase' = "done"
  /\ UNCHANGED <<sample, clock>>

Next == Tick \/ Sample \/ Produce

Spec == Init /\ [][Next]_svars
=============================================================================
