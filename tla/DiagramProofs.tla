---------------------------- MODULE DiagramProofs ----------------------------
(***************************************************************************)
(* Proofs, for every set of component values and every clock bound, of    *)
(* the safety properties of the source -> DeMux -> Mul diagram that the    *)
(* diagram runs check on a small instance.                                 *)
(***************************************************************************)
EXTENDS Diagram, TLAPS

USE CompsAssumption, MaxCycleAssumption, TopologicalAssumption

(* The shape of every variable. *)
TypeInv ==
  /\ srcOut \in [value : [Idx -> Int], ts : Int]
  /\ dmxOut \in [Idx -> [value : Int, ts : Int]]
  /\ mulOut \in [value : Int, ts : Int]
  /\ cycle \in Nat
  /\ ran \subseteq Blocks
  /\ samples \subseteq [value : [Idx -> Int], ts : Int]

(* The source's current signal is one of the samples it has held. *)
SampleInv ==
  /\ TypeInv
  /\ srcOut \in samples
  /\ OutputsFromOneSample

(* How far each block's timestamp may trail the scheduler's clock: the    *)
(* source is at most one cycle behind and up to date once it has run in   *)
(* this cycle; DeMux one cycle further, Mul one more.                     *)
ClockInv ==
  /\ TypeInv
  /\ srcOut.ts <= cycle
  /\ srcOut.ts >= cycle - 1
  /\ "src" \in ran => srcOut.ts = cycle
  /\ dmxOut[0].ts >= cycle - 2
  /\ "dmx" \in ran => dmxOut[0].ts >= cycle - 1
  /\ mulOut.ts >= cycle - 3
  /\ "mul" \in ran => mulOut.ts >= cycle - 2

(* In topological order a block that has run in this cycle holds what    *)
(* its upstream block holds now, and its upstream block has run.          *)
FreshInv ==
  /\ TypeInv
  /\ "dmx" \in ran =>
        /\ "src" \in ran
        /\ \A i \in Idx : dmxOut[i] = [value |-> srcOut.value[i], ts |-> srcOut.ts]
  /\ "mul" \in ran =>
        /\ "dmx" \in ran
        /\ mulOut = [value |-> dmxOut[0].value * dmxOut[1].value, ts |-> dmxOut[0].ts]
-----------------------------------------------------------------------------
LEMMA IdxFacts == Idx = {0, 1} /\ 0 \in Idx /\ 1 \in Idx
BY DEF Idx, N

LEMMA TypeInit == Init => TypeInv
BY IdxFacts DEF Init, TypeInv, ZeroVec, Blocks

LEMMA TypeStep == TypeInv /\ [Next]_vars => TypeInv'
<1> SUFFICES ASSUME TypeInv, [Next]_vars PROVE TypeInv'
  OBVIOUS
<1>1. CASE StartCycle
  BY <1>1 DEF StartCycle, TypeInv
<1>2. CASE SourceRun
  <2>1. PICK v \in [Idx -> Comps] : srcOut' = [value |-> v, ts |-> cycle]
    BY <1>2 DEF SourceRun
  <2>a. v \in [Idx -> Int]
    BY CompsAssumption
  <2>b. cycle \in Int
    BY DEF TypeInv
  <2>2. srcOut' \in [value : [Idx -> Int], ts : Int]
    BY <2>1, <2>a, <2>b
  <2>3. ran' \subseteq Blocks
    BY <1>2 DEF SourceRun, MayRun, Blocks, TypeInv
  <2> QED
    BY <1>2, <2>2, <2>3 DEF SourceRun, TypeInv
<1>3. CASE DeMuxRun
  BY <1>3, IdxFacts DEF DeMuxRun, MayRun, Blocks, TypeInv
<1>4. CASE MulRun
  BY <1>4, IdxFacts DEF MulRun, MayRun, Blocks, TypeInv
<1>5. CASE UNCHANGED vars
  BY <1>5 DEF vars, TypeInv
<1> QED
  BY <1>1, <1>2, <1>3, <1>4, <1>5 DEF Next

-----------------------------------------------------------------------------
(* Whatever order the scheduler calls run() in, DeMux's outputs together  *)
(* and Mul's output are each computed from a single source sample.        *)
THEOREM OneSampleSafe == Spec => []OutputsFromOneSample
<1>1. Init => SampleInv
  BY TypeInit, IdxFacts DEF Init, SampleInv, OutputsFromOneSample, ZeroVec
<1>2. SampleInv /\ [Next]_vars => SampleInv'
  <2> SUFFICES ASSUME SampleInv, [Next]_vars PROVE SampleInv'
    OBVIOUS
  <2>0. TypeInv'
    BY TypeStep DEF SampleInv
  <2>1. CASE StartCycle
    BY <2>0, <2>1 DEF StartCycle, SampleInv, OutputsFromOneSample
  <2>2. CASE SourceRun
    BY <2>0, <2>2 DEF SourceRun, SampleInv, OutputsFromOneSample
  <2>3. CASE DeMuxRun
    <3>1. \A i \in Idx : dmxOut'[i] = [value |-> srcOut.value[i], ts |-> srcOut.ts]
      BY <2>3 DEF DeMuxRun
    <3>2. \E s \in samples' :
             \A i \in Idx : dmxOut'[i] = [value |-> s.value[i], ts |-> s.ts]
      BY <3>1, <2>3 DEF DeMuxRun, SampleInv
    <3> QED
      BY <2>0, <3>2, <2>3 DEF DeMuxRun, SampleInv, OutputsFromOneSample
  <2>4. CASE MulRun
    <3>1. PICK s \in samples :
             \A i \in Idx : dmxOut[i] = [value |-> s.value[i], ts |-> s.ts]
      BY DEF SampleInv, OutputsFromOneSample
    <3>2. mulOut' = [value |-> s.value[0] * s.value[1], ts |-> s.ts]
      BY <3>1, <2>4, IdxFacts DEF MulRun
    <3> QED
      BY <2>0, <3>1, <3>2, <2>4 DEF MulRun, SampleInv, OutputsFromOneSample
  <2>5. CASE UNCHANGED vars
    BY <2>0, <2>5 DEF vars, SampleInv, OutputsFromOneSample
  <2> QED
    BY <2>1, <2>2, <2>3, <2>4, <2>5 DEF Next
<1>3. SampleInv => OutputsFromOneSample
  BY DEF SampleInv
<1> QED
  BY <1>1, <1>2, <1>3, PTL DEF Spec
-----------------------------------------------------------------------------
(* Whatever order the scheduler calls run() in, at the end of a cycle     *)
(* Mul's output trails the source's sample by at most Depth cycles: each  *)
(* block passes its input's timestamp on (DeMux::run, Mul::run).          *)
THEOREM LatencySafe == Spec => []LatencyBounded
<1>1. Init => ClockInv
  BY TypeInit, IdxFacts DEF Init, ClockInv, Blocks
<1>2. ClockInv /\ [Next]_vars => ClockInv'
  <2> SUFFICES ASSUME ClockInv, [Next]_vars PROVE ClockInv'
    OBVIOUS
  <2>0. TypeInv'
    BY TypeStep DEF ClockInv
  <2>1. CASE StartCycle
    <3>1. "src" \in ran /\ "dmx" \in ran /\ "mul" \in ran
      BY <2>1 DEF StartCycle, Blocks
    <3>2. cycle' \in {cycle, cycle + 1} /\ cycle' >= cycle /\ ran' = {}
      BY <2>1 DEF StartCycle, ClockInv, TypeInv
    <3> QED
      BY <2>0, <2>1, <3>1, <3>2 DEF StartCycle, ClockInv, TypeInv
  <2>2. CASE SourceRun
    <3>1. srcOut'.ts = cycle
      BY <2>2 DEF SourceRun
    <3> QED
      BY <2>0, <2>2, <3>1 DEF SourceRun, MayRun, ClockInv, TypeInv
  <2>3. CASE DeMuxRun
    <3>1. dmxOut'[0].ts = srcOut.ts
      BY <2>3, IdxFacts DEF DeMuxRun
    <3> QED
      BY <2>0, <2>3, <3>1 DEF DeMuxRun, MayRun, ClockInv, TypeInv
  <2>4. CASE MulRun
    <3>1. mulOut'.ts = dmxOut[0].ts
      BY <2>4 DEF MulRun
    <3> QED
      BY <2>0, <2>4, <3>1, IdxFacts DEF MulRun, MayRun, ClockInv, TypeInv
  <2>5. CASE UNCHANGED vars
    BY <2>0, <2>5 DEF vars, ClockInv
  <2> QED
    BY <2>1, <2>2, <2>3, <2>4, <2>5 DEF Next
<1>3. ClockInv => LatencyBounded
  BY DEF ClockInv, TypeInv, LatencyBounded, Depth, Blocks
<1> QED
  BY <1>1, <1>2, <1>3, PTL DEF Spec

-----------------------------------------------------------------------------
(* FreshInv holds initially: every output is cleared, so each block    *)
(* holds what its cleared upstream output yields.                      *)
LEMMA FreshInit == Init => FreshInv
<1> SUFFICES ASSUME Init PROVE FreshInv
  OBVIOUS
<1>1. \A i \in Idx : dmxOut[i] = [value |-> srcOut.value[i], ts |-> srcOut.ts]
  BY IdxFacts DEF Init, ZeroVec
<1>2. mulOut = [value |-> dmxOut[0].value * dmxOut[1].value, ts |-> dmxOut[0].ts]
  BY IdxFacts DEF Init
<1> QED
  <2>1. "src" \in ran /\ "dmx" \in ran
    BY DEF Init, Blocks
  <2> QED
    BY <1>1, <1>2, <2>1, TypeInit DEF FreshInv

(* In topological order every step preserves FreshInv. *)
LEMMA FreshStep == ASSUME Topological PROVE FreshInv /\ [Next]_vars => FreshInv'
<1> SUFFICES ASSUME FreshInv, [Next]_vars PROVE FreshInv'
  OBVIOUS
<1>0. TypeInv'
  BY TypeStep DEF FreshInv
<1>1. CASE StartCycle
  BY <1>0, <1>1 DEF StartCycle, FreshInv
<1>2. CASE SourceRun
  <2>1. "dmx" \notin ran' /\ "mul" \notin ran'
    BY <1>2 DEF SourceRun, MayRun, FreshInv
  <2> QED
    BY <1>0, <2>1 DEF FreshInv
<1>3. CASE DeMuxRun
  <2>1. "src" \in ran
    BY <1>3 DEF DeMuxRun, MayRun, Upstream, Blocks
  <2>2. "mul" \notin ran'
    BY <1>3 DEF DeMuxRun, MayRun, FreshInv
  <2>3. \A i \in Idx : dmxOut'[i] = [value |-> srcOut'.value[i], ts |-> srcOut'.ts]
    BY <1>3 DEF DeMuxRun
  <2> QED
    BY <1>0, <1>3, <2>1, <2>2, <2>3 DEF DeMuxRun, MayRun, FreshInv
<1>4. CASE MulRun
  <2>1. "dmx" \in ran
    BY <1>4 DEF MulRun, MayRun, Upstream, Blocks
  <2> QED
    BY <1>0, <1>4, <2>1 DEF MulRun, MayRun, FreshInv
<1>5. CASE UNCHANGED vars
  BY <1>0, <1>5 DEF vars, FreshInv
<1> QED
  BY <1>1, <1>2, <1>3, <1>4, <1>5 DEF Next

(* When the scheduler calls run() in topological order, at the end of     *)
(* every cycle DeMux and Mul hold what the source's sample of that cycle  *)
(* yields.                                                                 *)
THEOREM FreshSafe == ASSUME Topological PROVE Spec => []FreshAtCycleEnd
<1>1. Init => FreshInv
  BY FreshInit
<1>2. FreshInv /\ [Next]_vars => FreshInv'
  BY FreshStep
<1>3. FreshInv => FreshAtCycleEnd
  <2> SUFFICES ASSUME FreshInv, ran = Blocks PROVE FreshAtCycleEnd
    BY DEF FreshAtCycleEnd
  <2>1. \A i \in Idx : dmxOut[i] = [value |-> srcOut.value[i], ts |-> srcOut.ts]
    BY DEF FreshInv, Blocks
  <2>2. mulOut = [value |-> dmxOut[0].value * dmxOut[1].value, ts |-> dmxOut[0].ts]
    BY DEF FreshInv, Blocks
  <2> QED
    BY <2>1, <2>2, IdxFacts DEF FreshAtCycleEnd
<1> QED
  BY <1>1, <1>2, <1>3, PTL DEF Spec
=============================================================================
