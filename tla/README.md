# TLA+ models of the eeros control-block core

This directory holds TLA+ models of the parts of the eeros framework that are
under `src/`:

- the physical-unit type `SIUnit` and the HAL unit registry;
- the generic block `Blockio`, in its current and its earlier revision;
- the `DeMux` and `Mul` blocks built on `Blockio`;
- the `Runnable` interface the scheduler calls.

It also holds the TLC configurations that check those models, the TLAPS
proofs about them, and `PROJECT.json`. That file records components, runs,
mutants, the source map, findings, hazards and theorems.

## The system and how its parts interact

- **SIUnit** (`src/unnamed/part_000`; const-member variants in `part_001` and
  in `part_002` lines 1-94). A unit is a value made of seven SI base-unit
  exponents and a radian flag. It is built only by `SIUnit::create<...>()`. It
  is compared with the defaulted `operator==`, member by member (the
  defaulted `operator<=>` is not used by any modelled operation). `HALFeatures.hpp` maps the short names
  W, N, J, V and rad to the named units.
- **Blockio<N, M, Tin, Tout, Uin, Uout>** (`Blockio.hpp` lines 1-277).
  - The template arguments choose how each side is stored:
    - `Empty` for 0 ports;
    - a bare port for 1;
    - `std::array` when every unit is dimensionless;
    - `std::tuple` otherwise.
  - The constructor makes `this` the owner of every port (`setOwner`) and
    clears every output signal.
  - `run()` calls the stored algorithm.
  - The accessors are:
    - `getIn()` and `getOut()` for a single port;
    - `getIn<I>()` and `getOut<I>()` for a compile-time index;
    - `getIn(uint8_t)` and `getOut(uint8_t)` for a runtime index. These throw
      `IndexOutOfBoundsFault` when the index is `>= N` (or `>= M`).
  - Lines 278-517 hold an earlier revision. It differs only in `createOutputs`.
- **DeMux<N>** (`Blockio.hpp` lines 518-581) is a `Blockio<1, N>`. Its
  `run()` copies component i of its input vector, and the input's timestamp,
  to output i.
- **Mul** (`part_002` lines 95-149) is a `Blockio<0, 1>` with two extra inputs
  `in1` and `in2`. Its `run()` writes their product, stamped with `in1`'s
  timestamp.
- **Runnable** (`part_003`) is the interface of everything a time domain runs.

The code of `Signal`, `Input`, `Output`, `Block`, `IndexOutOfBoundsFault` and
of the time domain (scheduler) is not in this repository. These parts are
modelled from the specification and marked `spec_modelled` in the map:

- a signal is a value and a timestamp;
- an input reads the signal of the output it is connected to;
- a time domain calls `run()` of each of its blocks once per cycle, on one
  thread.

## Modules

| module | models | kind |
|---|---|---|
| `SIUnit` | SIUnit, its named units, `operator==`, `typeOfUnit` | operators |
| `SIUnitProofs` | TLAPS proofs about `operator==` and the registry | proofs |
| `Blockio` | one block through its whole life: storage selection, construction, run, every accessor, the algorithm's writes, upstream writes | state machine |
| `MC_Blockio` | the bounded instances for TLC | MC |
| `BlockioProofs` | TLAPS proofs about `Blockio` | proofs |
| `BlockPorts` | the port contract of a block (specification section 3), independent of storage | abstract spec |
| `BlockioRefinement` | the refinement mapping from `Blockio` onto `BlockPorts` | refinement |
| `MC_BlockioRefinement` | `MC_Blockio` with the refinement property | MC |
| `BlockioRefinementProofs` | TLAPS proof that `Blockio` implements `BlockPorts` | proofs |
| `Diagram` | source -> DeMux<2> -> Mul, with a scheduler that runs each block once per cycle | state machine |
| `DiagramProofs` | TLAPS proofs about `Diagram` | proofs |
| `SyncDiagram` | the synchronous semantics of the diagram: one sample, then its product, per cycle | abstract spec |
| `DiagramRefinement` | the refinement mapping from `Diagram` onto `SyncDiagram` | refinement |
| `DiagramRefinementProofs` | TLAPS proof that `Diagram` in topological order implements `SyncDiagram` | proofs |

### Blockio: state and actions

`decl` is the template instantiation. `Init` picks any declaration with at
most `MaxPorts` ports per side over the units `DeclUnits`.

The state variables:

- `constructed`;
- `in` and `out`: the storage of each side, as a record with a kind and a
  function from slot to port;
- `running`: the algorithm is executing;
- `cursor`: the port an accessor returned last;
- `fault`: a thrown fault;
- `written`: the outputs the algorithm has written since construction.

The actions, mapped one-to-one in `PROJECT.json`:

- `Construct` is the constructor. It uses `generateNInputs`/`createInputs`
  and `generateMOutputs`/`createOutputs`, then `initalizeInputsAndOutputs`.
- `Run` and `Return` are `run()` and `func()`.
- The accessors are `GetSingle`, `GetStatic` and `GetRuntime`. They are
  offered only where the code's `requires` clause allows them.
  - `GetRuntime` takes any caller index from `CallerIndices`.
  - It converts the index to `uint8_t` (`% 256`) before the `index >= N`
    check, exactly as the parameter type does.
- `SetValue` and `SetTimestamp` are the algorithm's writes through the port
  it last obtained.
- `Feed` is an upstream block writing an input.

### Diagram: state and actions

The state is:

- each block's output signals: `srcOut`, `dmxOut` and `mulOut`;
- the scheduler's `cycle` counter;
- the set `ran` of blocks that have run in this cycle;
- the history variable `samples`.

The actions:

- `SourceRun`, `DeMuxRun` and `MulRun` are the blocks' `run()`. Each is one
  step, because nothing else executes while a `run()` executes.
- `StartCycle` begins the next cycle once every block has run. The clock
  saturates at `MaxCycle` so that the state space stays finite.
- With `Topological = FALSE` the scheduler may run the blocks in any order.
  With `TRUE` it runs every block after its upstream block.

### SyncDiagram and the refinement

`SyncDiagram` is what a data-flow diagram promises when its time domain runs
the blocks in topological order. Each cycle, the source takes one sample
stamped with the cycle (`Sample`). Then, in one step, the output becomes the
product of that sample's two components, with its timestamp (`Produce`).
`Tick` starts the next cycle. DeMux and the order of the `run()` calls are
not visible.

`DiagramRefinement` maps `Diagram` onto it:

- the abstract sample is `srcOut`;
- the abstract output is `mulOut`;
- the clock is `cycle`;
- the phase is read off `ran`: "done" once Mul has run, "sampled" once the
  source has run, else "wait".

`SourceRun` is `Sample`, `MulRun` is `Produce`, `StartCycle` is `Tick`, and
`DeMuxRun` is a stuttering step. The refinement is claimed, checked and
proved only for `Topological = TRUE`. In any order Mul may run before the
source and compute from the previous cycle's sample; what the diagram still
guarantees then is what `OutputsFromOneSample` and `LatencyBounded` state.

### BlockPorts and the refinement

`BlockPorts` says what a block promises, whatever its storage. Each side is a
vector of ports `0..count-1`, and each port has the declared type and unit.
The outputs start cleared. An access below the count designates that port
(`Access`). Any other index raises the fault, drops the reference, ends the
algorithm and changes no port (`Reject`). A write replaces one output's
signal (`Write`). Between runs, upstream blocks replace inputs (`Feed`).

`BlockioRefinement` maps `Blockio` onto it:

- `AbsPorts`: for each side, the storage's slots, with the storage's value
  type and each slot's unit and signal. The kind of storage and the owners
  are forgotten.
- `AbsRef`: the side of the cursor and the index the caller *asked for*
  (`cursor.req`), not the slot the code reached. The contract is that a
  reference designates the port of the requested index.
- `AbsFault`: the side of the last fault.

`Construct`, `Run` and `Return` map to their namesakes. `GetSingle`,
`GetStatic` and an in-range `GetRuntime` map to `Access`. A faulting
`GetRuntime` maps to `Reject`. `WriteOut` maps to `Write`, and the upstream
write maps to `Feed`.

The refinement does not settle the partial failure at `Blockio.hpp:110`: a
fault in the middle of `run()` leaves the outputs written so far in this run
updated and the others from the previous cycle, and the contract allows
that, since a run may write any subset of the outputs. `PROJECT.json` lists
this hazard with no property.

## Runs

| run | cfg | expect | checks |
|---|---|---|---|
| blockio | `MC_Blockio.cfg` | pass | `AccessReturnsDeclaredPort`, `OwnedExactlyOnce`, `UnwrittenOutputsAreClear`, `PortUnitNamedOnce` |
| blockio_rev2 | `MC_Blockio_rev2.cfg` | violation | `AccessReturnsDeclaredPort` with the earlier `createOutputs` |
| blockio_wrap | `MC_Blockio_wrap.cfg` | violation | `RuntimeFaultExactlyOutOfRange` with a caller index of 257 |
| blockio_homog | `MC_Blockio_homog.cfg` | violation | `SpecHomogeneousSideIsIndexable` |
| diagram_any | `Diagram_any.cfg` | pass | `OutputsFromOneSample`, `LatencyBounded`, `SampleReachesMul` (liveness) |
| diagram_topo | `Diagram_topo.cfg` | pass | `FreshAtCycleEnd` |
| diagram_refines | `Diagram_refines.cfg` | pass | `Refines`: `Diagram` in topological order implements `SyncDiagram` |
| blockio_refines | `MC_BlockioRefinement.cfg` | pass | `Refines`: `Blockio` implements `BlockPorts` |

**Bounds.**

- `MaxPorts = 2`: every side is one of 0, 1 or 2 ports. That covers the four
  storage kinds (`Empty`, single, array and tuple) and both fold expressions.
- The units are {dimensionless, volt}. This gives homogeneous non-dimensionless
  sides, mixed sides and dimensionless sides.
- Two value types: enough to tell `Tin` from `Tout`.
- `CallerIndices = 0..3`: covers the indices on both sides of `N` and `M`.
  The wrap run adds 257.
- `MaxTime = 1`: a written timestamp can differ from the cleared one.
- The diagram uses two component values and `MaxCycle = 3`. That is one more
  cycle than the chain is deep, so a lagging order can fall behind and catch
  up again.

**What the passing runs show.**

- Each accessor returns the port the declaration puts at that index, with the
  declared type and unit.
- Every port is owned exactly once after construction.
- An output the algorithm never wrote reads as cleared.
- `Blockio` implements the port contract `BlockPorts`: in particular a
  runtime index faults exactly when it is out of range (the mutant `>` for
  `>=` in `GetRuntime` breaks the refinement).
- The unit of every port has at most one name in the HAL registry
  (`PortUnitNamedOnce`).
- In any scheduling order, no output mixes two samples, and Mul is at most
  two cycles behind at the end of a cycle. Every sample eventually reaches
  Mul.
- In topological order, everything is fresh at the end of every cycle, and
  the diagram implements its synchronous semantics `SyncDiagram`.

**Fairness.** `Diagram` assumes weak fairness of each block's `run()` and of
`StartCycle`. The time domain's contract is that a started cycle calls `run()`
of every block and then starts the next one, so an enabled step is never
postponed forever. `Blockio` has no fairness and no liveness property. A
block's accessors are called by user code, which owes the block nothing.

**Mutants.** Each property of a passing run is killed by a plausible bug in
the code it is about (listed in `PROJECT.json`):

- the first unit used for every tuple slot;
- the single-port branch of `initalizeInputsAndOutputs` dropped;
- the clear missed in the fold;
- volt without its current exponent;
- the DeMux loop stopping one short;
- a missing `setTimestamp`;
- `in1 * in1` (against `FreshAtCycleEnd`, and against the diagram's
  refinement);
- `>` for `>=` in `GetRuntime`, against the Blockio refinement.

## Findings

1. **Earlier `createOutputs` uses the inputs' parameters** (`Blockio.hpp:478`,
   480 and 483).
   - It tests `Uin` where it should test `Uout`.
   - It sizes the array by `N`, not `M`.
   - It types the outputs with `Tin`, not `Tout`.
   - The blockio_rev2 run reaches an accessor that returns an output of the
     wrong type, or indexes past the outputs.
   - The theorem `Rev2WrongExactly` says which blocks are affected. That
     revision builds the right outputs only when all three hold: `Tin =
     Tout`, the outputs are dimensionless exactly when the inputs are, and
     in that case `N = M`. `DeMux<2>` (a matrix in, scalars out) is not such
     a block.
2. **Runtime indices wrap** (`Blockio.hpp:109`, 147). `getIn(uint8_t)`
   narrows an `int` argument before the bounds check. The blockio_wrap run
   checks `RuntimeFaultExactlyOutOfRange` with caller index 257 and TLC finds
   a runtime access that returns a port instead of raising the fault the
   specification promises.
3. **Array storage requires dimensionless units** (`Blockio.hpp:199`, 233).
   - The specification ties runtime indexing to a homogeneous side.
   - The code gives `std::array`, and so `getIn(uint8_t)`, only when every
     unit is dimensionless.
   - Two volt inputs therefore cannot be indexed at runtime.

Observations that need no run:

- The fault message does not contain the index.
- The commented-out `valid_radian` rule in `part_001:52` yields `false` for
  every non-radian unit. Enabled as written, it would reject all of them.
- In `part_001` and `part_002`, `ScalableInput::setUnit` assigns to an
  `SIUnit` whose members are `const`. That does not compile.
- `DeMux<N>` takes `uint32_t N` but passes it as `Blockio`'s `uint8_t M`, so
  N > 255 is rejected as a narrowing conversion.

## Proofs

TLAPS proves the following for every value of the constants (that is, for
every bound on ports, units, types, values and time).

`BlockioProofs` (EXTENDS Blockio, SIUnitProofs, TLAPS):

- `TypeCorrect`: `Spec => []TypeOK`.
- `StructInvariant`: `Spec => []StructInv`. `StructInv` is the inductive
  invariant. It says:
  - before construction nothing is running or written;
  - after construction, each side's storage has the declared type, the count
    `0..count-1` and a unit equal to the declared one in every slot;
  - `OwnedExactlyOnce`;
  - `UnwrittenOutputsAreClear`.

  Neither of the last two is inductive alone. Preserving them across
  `Construct` needs the shape facts about `createInputs`/`createOutputs`,
  which the lemmas `InputsShape` and `OutputsShape` give. Preserving them
  across the algorithm's writes needs the lemma `SetSignal`: a write to one
  slot keeps the storage's shape, units and owners.
- `OwnershipSafe` and `OutputsClearSafe` follow from `StructInvariant`.
- `AccessSafe`: `ASSUME NarrowIndices PROVE Spec => []AccessReturnsDeclaredPort`.
  - Its inductive invariant is `IInv == StructInv /\ AccessReturnsDeclaredPort`.
  - The assumption `NarrowIndices` says that caller indices fit in `uint8_t`.
  - Without it the property is false: that is finding 2, and the blockio_wrap
    run shows it.
- `PortUnitsNamedOnceSafe`: `Spec => []PortUnitNamedOnce`, the registry
  property the blockio run checks. It follows from `TypeCorrect` (every
  port's unit is in `UnitSet(Int)`) and `NamedUnitsAreDistinct`.
- `Rev2WrongExactly`: a fact about the constructors, for every declaration.
  `createOutputsRev2(d, g) = createOutputs(d, g)` holds if and only if all
  three hold:
  - `d.Tin = d.Tout`;
  - `allDimensionLess(d.Uin) = allDimensionLess(d.Uout)`;
  - if the inputs are dimensionless, then `d.N = d.M`.

  The forward direction compares the type, the kind and the domain of the
  two storages. The backward direction has one case per branch.

`BlockioRefinementProofs` (EXTENDS BlockioRefinement, BlockioProofs):

- `Refinement`: `ASSUME NarrowIndices PROVE Spec => Refines`, where
  `Refines == A!Spec`.
  - It rests on `IInv`, the inductive invariant of `AccessSafe`.
  - `RefInit` shows that the initial states map to `A!Init`.
  - `RefStep` shows `IInv /\ [Next]_vars => [A!Next]_A!avars`. It has one
    case per action. Every accessor goes through one generic step, which
    gives the witness for `A!Access` or `A!Reject`.
  - `IInv` is needed because a reference is mapped to the requested index.
    `AccessReturnsDeclaredPort` says the cursor's slot is that index, which
    makes `Write` on the cursor a write to the abstract slot.
  - The provers treat the instantiated names `A!Sides`, `A!NoRef` and
    `A!UnitEqual` as new symbols. The lemmas `SameNames`, `SameUnitEqual` and
    `SideDecl` equate them with `Blockio`'s. `AbsSetSignal` and
    `AbsPortsWrite` carry a one-slot write through the mapping.

`DiagramProofs` (EXTENDS Diagram, TLAPS):

- `OneSampleSafe`: `Spec => []OutputsFromOneSample`. Its inductive invariant
  adds that the source's signal is in the sample history.
- `LatencySafe`: `Spec => []LatencyBounded`. The inductive invariant
  `ClockInv` bounds how far each block's timestamp trails `cycle`, with a
  tighter bound once the block has run in the current cycle. The property is
  the bound for Mul at the end of a cycle.
- `FreshSafe`: `ASSUME Topological PROVE Spec => []FreshAtCycleEnd`. Its
  inductive invariant `FreshInv` says that a block that has run in this cycle
  holds its upstream block's current value, and that its upstream block has
  run too. Its initiation and step are the lemmas `FreshInit` and
  `FreshStep`.

`DiagramRefinementProofs` (EXTENDS DiagramRefinement, DiagramProofs):

- `Refinement`: `ASSUME Topological PROVE Spec => Refines`, where
  `Refines == S!Spec`.
  - `RefInit`: the cleared initial outputs map to `S!Init`.
  - `RefStep`: `FreshInv /\ [Next]_vars => [S!Next]_S!svars`, with one case
    per action.
  - `FreshInv` is needed in two cases. For `MulRun`, it says DeMux holds the
    components of the current sample, so the product is `S!Produce`'s. For
    `SourceRun`, it rules out that Mul has already run without the source
    (`MulAfterSrc`), so the abstract phase is "wait".

`SIUnitProofs` (EXTENDS SIUnit, TLAPS):

- `NamedUnitsAreDistinct`: `NamedUnitsDistinct`, no two registry names
  denote units that `operator==` calls equal. `UnitEqualIsIdentity` shows that `operator==` on units with
  integer exponents is the identity of values (memberwise equality, then
  record extensionality), and `RegistryEntries` that the entries of the
  registry are five pairwise different records.

Each inductive invariant was model-checked by TLC before it was proved.

**TLC only.**

- The liveness property `SampleReachesMul`: TLAPS does not handle liveness
  under fairness or ENABLED.
- The violation runs blockio_rev2, blockio_wrap and blockio_homog: TLC finds
  the counterexamples of the three findings.

## Not modelled

- **ScalableInput**. Its members are plain unguarded setters and getters, and
  the specification declares `minIn`/`maxIn` advisory. The hazard that the
  range can be inverted between `setMinIn` and `setMaxIn` is listed in
  `PROJECT.json`, with that note.
- **`SIUnit::operator<=>` and `generateNSizeArray`**: no modelled operation
  orders units, and the default unit arrays are among the declarations that
  `Blockio`'s `Init` enumerates.
- **The HAL channel tables** (`typeOfChannel`): static data.
- **The `operator<<` printers**: formatting only.
- **The numeric content of signals**. Values are model values, except in the
  diagram, where the product is computed over a small set of integers.
