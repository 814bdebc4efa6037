------------------------------ MODULE Diagram ------------------------------
(***************************************************************************)
(* A control diagram of three blocks and the external scheduler that runs *)
(* them once per cycle: a source block that writes a vector signal, a     *)
(* DeMux<2> (DeMux.hpp, Blockio.hpp lines 518-581) whose single input is  *)
(* wired to the source's output, and a Mul (part_002 lines 95-149) whose  *)
(* inputs in1 and in2 are wired to the DeMux's outputs 0 and 1.            *)
(*                                                                         *)
(* An input reads the signal of the output it is connected to, so the     *)
(* state is the output signals only.  The initial state is the one the    *)
(* constructors leave: every output cleared (Blockio's constructor, see   *)
(* OutputsClearSafe in BlockioProofs).  The scheduler is not part of this *)
(* code base; it is modelled from its contract: each cycle it calls run() *)
(* of every block exactly once, in topological order or, when             *)
(* Topological is FALSE, in any order.  Each run() is one step: the code  *)
(* is single-threaded and nothing runs while a block's run() executes.    *)
(***************************************************************************)
EXTENDS Integers

CONSTANTS
  Comps,       \* the component values the source may produce
  MaxCycle,    \* bound on the cycle counter the source stamps its samples with
  Topological  \* the scheduler runs every block after its upstream blocks

ASSUME CompsAssumption == Comps \subseteq Int
ASSUME MaxCycleAssumption == MaxCycle \in Nat \ {0}
ASSUME TopologicalAssumption == Topological \in BOOLEAN

(* DeMux<N> with N = 2: the length of the source's vector, the number of  *)
(* DeMux outputs, and the number of Mul inputs it feeds.                   *)
N == 2
Idx == 0..(N - 1)

(* The value a cleared signal holds: the zero matrix or the zero scalar. *)
ZeroVec == [i \in Idx |-> 0]

Blocks == {"src", "dmx", "mul"}
Upstream == [b \in Blocks |-> CASE b = "src" -> {}
                                [] b = "dmx" -> {"src"}
                                [] b = "mul" -> {"dmx"}]

VARIABLES
  srcOut,   \* the source's output signal (a vector value and a timestamp)
  dmxOut,   \* DeMux's output signals, by index
  mulOut,   \* Mul's output signal
  cycle,    \* the scheduler's cycle counter
  ran,      \* the blocks that have run in the current cycle
  samples   \* history: every signal the source has held

vars == <<srcOut, dmxOut, mulOut, cycle, ran, samples>>

-----------------------------------------------------------------------------
Init ==
  /\ srcOut = [value |-> ZeroVec, ts |-> 0]
  /\ dmxOut = [i \in Idx |-> [value |-> 0, ts |-> 0]]
  /\ mulOut = [value |-> 0, ts |-> 0]
  /\ cycle = 0
  /\ ran = Blocks
  /\ samples = {[value |-> ZeroVec, ts |-> 0]}

(* The scheduler may call run() on a block that has not run in this       *)
(* cycle, and, in topological order, only after its upstream blocks.       *)
MayRun(b) ==
  /\ b \notin ran
  /\ Topological => Upstream[b] \subseteq ran
  /\ ran' = ran \cup {b}

(* A new cycle starts when every block has run.  The clock the source     *)
(* stamps with saturates at MaxCycle: from there on consecutive cycles     *)
(* carry equal timestamps, as with a coarse clock.                         *)
StartCycle ==
  /\ ran = Blocks
  /\ cycle' = IF cycle < MaxCycle THEN cycle + 1 ELSE cycle
  /\ ran' = {}
  /\ UNCHANGED <<srcOut, dmxOut, mulOut, samples>>

(* The source block writes a new vector stamped with the current cycle. *)
SourceRun ==
  /\ MayRun("src")
  /\ \E v \in [Idx -> Comps] :
        srcOut' = [value |-> v, ts |-> cycle]
  /\ samples' = samples \cup {srcOut'}
  /\ UNCHANGED <<dmxOut, mulOut, cycle>>

(* DeMux::run(): for i < N, out[i] takes component i of the input's value *)
(* and the input's timestamp.                                              *)
(* Mutant: the loop stops one short (i < N - 1).                           *)
DeMuxRunSkipsLast ==
  /\ MayRun("dmx")
  /\ dmxOut' = [i \in Idx |->
                  IF i < N - 1
                  THEN [value |-> srcOut.value[i], ts |-> srcOut.ts]
                  ELSE dmxOut[i]]
  /\ UNCHANGED <<srcOut, mulOut, cycle, samples>>

(* Mutant: setTimestamp is left out of the loop body. *)
DeMuxRunNoTimestamp ==
  /\ MayRun("dmx")
  /\ dmxOut' = [i \in Idx |-> [value |-> srcOut.value[i], ts |-> dmxOut[i].ts]]
  /\ UNCHANGED <<srcOut, mulOut, cycle, samples>>

DeMuxRun ==
  /\ MayRun("dmx")
  /\ dmxOut' = [i \in Idx |-> [value |-> srcOut.value[i], ts |-> srcOut.ts]]
  /\ UNCHANGED <<srcOut, mulOut, cycle, samples>>

(* Mul::run(): the output takes the product of the two inputs' values and *)
(* the timestamp of in1.                                                    *)
(* Mutant: a copy-paste slip multiplies in1 by itself.                     *)
MulRunSquaresIn1 ==
  /\ MayRun("mul")
  /\ mulOut' = [value |-> dmxOut[0].value * dmxOut[0].value,
                ts |-> dmxOut[0].ts]
  /\ UNCHANGED <<srcOut, dmxOut, cycle, samples>>

(* Mutant: setTimestamp is left out. *)
MulRunNoTimestamp ==
  /\ MayRun("mul")
  /\ mulOut' = [value |-> dmxOut[0].value * dmxOut[1].value, ts |-> mulOut.ts]
  /\ UNCHANGED <<srcOut, dmxOut, cycle, samples>>

MulRun ==
  /\ MayRun("mul")
  /\ mulOut' = [value |-> dmxOut[0].value * dmxOut[1].value,
                ts |-> dmxOut[0].ts]
  /\ UNCHANGED <<srcOut, dmxOut, cycle, samples>>

Next == StartCycle \/ SourceRun \/ DeMuxRun \/ MulRun

(* The scheduler's contract: a started cycle is completed (every block's  *)
(* run() is called) and a next cycle is started.                           *)
Fairness ==
  /\ WF_vars(StartCycle)
  /\ WF_vars(SourceRun)
  /\ WF_vars(DeMuxRun)
  /\ WF_vars(MulRun)

Spec == Init /\ [][Next]_vars /\ Fairness

-----------------------------------------------------------------------------
(* Properties *)

(* In whatever order the scheduler calls run(), no block ever combines     *)
(* parts of two different source samples: DeMux's outputs are together the *)
(* components of one sample with that sample's timestamp, and Mul's output *)
(* is the product of the two components of one sample, stamped with it.    *)
OutputsFromOneSample ==
  /\ \E s \in samples :
        \A i \in Idx : dmxOut[i] = [value |-> s.value[i], ts |-> s.ts]
  /\ \E s \in samples :
        mulOut = [value |-> s.value[0] * s.value[1], ts |-> s.ts]

(* The number of connections from the source to Mul. *)
Depth == 2

(* In any order of the run() calls, at the end of a cycle Mul's output is *)
(* at most one cycle per connection older than the source's sample.        *)
LatencyBounded ==
  ran = Blocks => srcOut.ts - mulOut.ts <= Depth

(* In topological order, at the end of every cycle DeMux's and Mul's      *)
(* outputs are computed from the sample the source wrote in that cycle.   *)
FreshAtCycleEnd ==
  ran = Blocks =>
    /\ \A i \in Idx : dmxOut[i] = [value |-> srcOut.value[i], ts |-> srcOut.ts]
    /\ mulOut = [value |-> srcOut.value[0] * srcOut.value[1], ts |-> srcOut.ts]

(* Under the scheduler's contract, every sample the source stamps reaches *)
(* Mul's output: its timestamp eventually is at least the sample's.       *)
SampleReachesMul ==
  \A t \in 0..MaxCycle : (srcOut.ts = t) ~> (mulOut.ts >= t)

=============================================================================
