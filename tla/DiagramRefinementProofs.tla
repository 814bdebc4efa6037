----------------------- MODULE DiagramRefinementProofs -----------------------
(***************************************************************************)
(* Proof that the diagram, scheduled in topological order, implements     *)
(* its synchronous semantics SyncDiagram, for every set of component      *)
(* values and every clock bound.  The argument rests on FreshInv: a       *)
(* block that has run in this cycle holds what its upstream block holds, *)
(* so when Mul runs it computes from the source's current sample.         *)
(***************************************************************************)
EXTENDS DiagramRefinement, DiagramProofs

USE CompsAssumption, MaxCycleAssumption, TopologicalAssumption

(* The instantiated vector index set is DeMux's. *)
LEMMA SameIdx == 0..1 = Idx
BY DEF Idx, N

LEMMA RefInit == Init => S!Init
<1> SUFFICES ASSUME Init PROVE S!Init
  OBVIOUS
<1>1. srcOut = [value |-> [i \in 0..1 |-> 0], ts |-> 0]
  BY SameIdx DEF Init, ZeroVec
<1>2. AbsPhase = "done"
  BY DEF Init, AbsPhase, Blocks
<1>. QED  BY <1>1, <1>2 DEF Init, S!Init

(* In topological order Mul never runs before the source in a cycle. *)
LEMMA MulAfterSrc ==
  ASSUME FreshInv, "mul" \in ran
  PROVE  "src" \in ran
BY DEF FreshInv

LEMMA RefStep ==
  ASSUME Topological
  PROVE  FreshInv /\ [Next]_vars => [S!Next]_S!svars
<1> SUFFICES ASSUME FreshInv, [Next]_vars PROVE [S!Next]_S!svars
  OBVIOUS
<1>1. CASE StartCycle
  <2>1. AbsPhase = "done" /\ AbsPhase' = "wait"
    BY <1>1 DEF StartCycle, AbsPhase, Blocks
  <2>. QED  BY <1>1, <2>1 DEF StartCycle, S!Next, S!Tick, S!svars
<1>2. CASE SourceRun
  <2>1. "src" \notin ran /\ "mul" \notin ran
    BY <1>2, MulAfterSrc DEF SourceRun, MayRun
  <2>2. AbsPhase = "wait" /\ AbsPhase' = "sampled"
    BY <1>2, <2>1 DEF SourceRun, MayRun, AbsPhase
  <2>3. PICK v \in [Idx -> Comps] : srcOut' = [value |-> v, ts |-> cycle]
    BY <1>2 DEF SourceRun
  <2>4. \E w \in [0..1 -> Comps] : srcOut' = [value |-> w, ts |-> cycle]
    BY <2>3, SameIdx
  <2>5. S!Sample
    BY <1>2, <2>2, <2>4 DEF SourceRun, S!Sample
  <2>. QED  BY <2>5 DEF S!Next
<1>3. CASE DeMuxRun
  <2>1. "mul" \notin ran /\ "mul" \notin ran' /\ ("src" \in ran' <=> "src" \in ran)
    BY <1>3 DEF DeMuxRun, MayRun, FreshInv
  <2>2. AbsPhase' = AbsPhase
    BY <2>1 DEF AbsPhase
  <2>. QED  BY <1>3, <2>2 DEF DeMuxRun, S!svars
<1>4. CASE MulRun
  <2>1. "mul" \notin ran /\ "dmx" \in ran /\ "src" \in ran
    BY <1>4 DEF MulRun, MayRun, Upstream, Blocks, FreshInv
  <2>2. AbsPhase = "sampled" /\ AbsPhase' = "done"
    BY <1>4, <2>1 DEF MulRun, MayRun, AbsPhase
  <2>3. mulOut' = [value |-> srcOut.value[0] * srcOut.value[1], ts |-> srcOut.ts]
    BY <1>4, <2>1, IdxFacts DEF MulRun, FreshInv
  <2>4. S!Produce
    BY <1>4, <2>2, <2>3 DEF MulRun, S!Produce
  <2>. QED  BY <2>4 DEF S!Next
<1>5. CASE UNCHANGED vars
  BY <1>5 DEF vars, S!svars, AbsPhase
<1>. QED  BY <1>1, <1>2, <1>3, <1>4, <1>5 DEF Next

(* Scheduled in topological order, the diagram behaves as its            *)
(* synchronous semantics: every run() sequence of a cycle is one sample  *)
(* of the source followed by Mul's output becoming the product of that   *)
(* sample, with its timestamp.                                            *)
THEOREM Refinement == ASSUME Topological PROVE Spec => Refines
<1>1. Init => FreshInv
  BY FreshInit
<1>2. FreshInv /\ [Next]_vars => FreshInv'
  BY FreshStep
<1>3. Init => S!Init
  BY RefInit
<1>4. FreshInv /\ [Next]_vars => [S!Next]_S!svars
  BY RefStep
<1>. QED  BY <1>1, <1>2, <1>3, <1>4, PTL DEF Spec, Refines, S!Spec
=============================================================================
