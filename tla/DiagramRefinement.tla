-------------------------- MODULE DiagramRefinement --------------------------
(***************************************************************************)
(* The diagram, scheduled in topological order, implements its            *)
(* synchronous semantics SyncDiagram.  The refinement mapping: the        *)
(* abstract sample is the source's output, the abstract output is Mul's,  *)
(* the clock is the scheduler's cycle, and the phase is read off the set  *)
(* of blocks that have run in this cycle.  SourceRun is Sample, MulRun is *)
(* Produce, StartCycle is Tick and DeMuxRun is a stuttering step.         *)
(***************************************************************************)
EXTENDS Diagram

(* Mul has run: the cycle is done; else the source has run: sampled. *)
AbsPhase ==
  IF "mul" \in ran THEN "done" ELSE IF "src" \in ran THEN "sampled" ELSE "wait"

S == INSTANCE SyncDiagram
       WITH sample <- srcOut, out <- mulOut, clock <- cycle, phase <- AbsPhase

(* Whatever the values the source produces, in topological order the    *)
(* three blocks' run() calls behave as one synchronous step per cycle:   *)
(* Mul's output is the product of the components of the sample the      *)
(* source took in this cycle, stamped with it, and DeMux is invisible.   *)
Refines == S!Spec
=============================================================================
