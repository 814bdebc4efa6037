------------------------------ MODULE Blockio ------------------------------
(***************************************************************************)
(* The generic block with N inputs and M outputs (class template Blockio,  *)
(* Blockio.hpp lines 1-277), from its construction to its cycles.          *)
(*                                                                         *)
(* The template arguments <N, M, Tin, Tout, Uin, Uout> of the block are    *)
(* the variable decl, chosen once in Init among all instantiations within *)
(* the bounds, so that one run covers every instantiation.  Construction  *)
(* selects the storage of each side (nothing, one port, an indexable      *)
(* array, or a tuple addressed by compile-time index), sets the owner of  *)
(* every port and clears every output signal.  After that the scheduler   *)
(* may call run(), which runs the user's algorithm: a sequence of port    *)
(* accesses through the accessors and writes to output signals, that a    *)
(* runtime index outside the port count interrupts with an                *)
(* IndexOutOfBoundsFault.  Between runs the upstream blocks write the     *)
(* signals the inputs read.                                                *)
(*                                                                         *)
(* A call that the C++ compiler rejects for an instantiation (an accessor *)
(* whose requires-clause fails, std::get with an index past the end, a    *)
(* runtime index into a tuple) is an action that is not enabled.          *)
(***************************************************************************)
EXTENDS Integers, SIUnit

CONSTANTS
  MaxPorts,      \* bound on N and M (the template parameters are uint8_t)
  DeclUnits,     \* the units an integrator may declare for a port
  Types,         \* the value types Tin and Tout may take
  Values,        \* signal values other than the zero value
  Zero,          \* the value Signal::clear() stores
  MaxTime,       \* timestamps are 0..MaxTime, 0 being the empty timestamp
  CallerIndices, \* the integers a caller passes to getIn(i) / getOut(i)
  Self,          \* the identity of this block, stored as the ports' owner
  NoOwner        \* the owner of a port before setOwner

ASSUME MaxPortsAssumption == MaxPorts \in 0..255
ASSUME MaxTimeAssumption == MaxTime \in Nat
ASSUME CallerIndicesAssumption == CallerIndices \subseteq Nat
ASSUME DeclUnitsAssumption == DeclUnits \subseteq UnitSet(Int)
ASSUME ZeroAssumption == Zero \notin Values
ASSUME OwnerAssumption == Self # NoOwner

(* The parameter of getIn(uint8_t) / getOut(uint8_t): a caller's integer  *)
(* is converted to uint8_t, i.e. taken modulo 2^8.                         *)
IndexWidth == 256
ToUint8(k) == k % IndexWidth

Signal == [value : Values \cup {Zero}, ts : 0..MaxTime]

(* Signal::clear(): zero value, empty timestamp. *)
ZeroSignal == [value |-> Zero, ts |-> 0]

PortUnits == DeclUnits \cup {Dimensionless}

(* A port as stored in a block: its unit, its owner back-reference, how    *)
(* often setOwner was called on it, and its signal.                        *)
Port == [unit : PortUnits, owner : {Self, NoOwner}, ownerSets : Nat,
         sig : Signal]

(* The storage of one side: its shape, the value type of its ports, and   *)
(* the ports by index.                                                     *)
Kinds == {"empty", "single", "array", "tuple"}
IsStorage(st) ==
  /\ DOMAIN st = {"kind", "type", "elem"}
  /\ st.kind \in Kinds
  /\ st.type \in Types
  /\ \E k \in 0..MaxPorts : DOMAIN st.elem = 0..(k - 1)
  /\ \A i \in DOMAIN st.elem : st.elem[i] \in Port

(* The instantiations Blockio<N, M, Tin, Tout, Uin, Uout> within bounds. *)
UnitArrays(n) == [0..(n - 1) -> DeclUnits]
AnyUnitArray == UNION {UnitArrays(n) : n \in 0..MaxPorts}
Decls ==
  {d \in [N : 0..MaxPorts, M : 0..MaxPorts, Tin : Types, Tout : Types,
          Uin : AnyUnitArray, Uout : AnyUnitArray] :
      d.Uin \in UnitArrays(d.N) /\ d.Uout \in UnitArrays(d.M)}

NoRef == [side |-> "none"]
Sides == {"in", "out"}
NoFault == [block |-> NoOwner]

VARIABLES
  decl,        \* the template arguments of the block
  constructed, \* the constructor has run
  in,          \* the input storage
  out,         \* the output storage
  running,     \* run() is executing
  cursor,      \* the port reference the algorithm holds, and how it got it
  fault,       \* the last IndexOutOfBoundsFault thrown
  written      \* history: output slots written since construction

vars == <<decl, constructed, in, out, running, cursor, fault, written>>

-----------------------------------------------------------------------------
(* Storage selection (generateNInputs, createInputs, ...). g gives the    *)
(* indeterminate signals of default-constructed ports.                     *)

NewPort(u, s) == [unit |-> u, owner |-> NoOwner, ownerSets |-> 0, sig |-> s]

(* std::ranges::all_of(U, e == SIUnit::create()). *)
allDimensionLess(U) == \A i \in DOMAIN U : UnitEqual(U[i], Dimensionless)

(* Mutant: the tuple branch gives every slot the first declared unit. *)
createInputsFirstUnit(d, g) ==
  IF allDimensionLess(d.Uin)
  THEN [kind |-> "array", type |-> d.Tin,
        elem |-> [i \in 0..(d.N - 1) |-> NewPort(Dimensionless, g[i])]]
  ELSE [kind |-> "tuple", type |-> d.Tin,
        elem |-> [i \in 0..(d.N - 1) |-> NewPort(d.Uin[0], g[i])]]

createInputs(d, g) ==
  IF allDimensionLess(d.Uin)
  THEN [kind |-> "array", type |-> d.Tin,
        elem |-> [i \in 0..(d.N - 1) |-> NewPort(Dimensionless, g[i])]]
  ELSE [kind |-> "tuple", type |-> d.Tin,
        elem |-> [i \in 0..(d.N - 1) |-> NewPort(d.Uin[i], g[i])]]

generateNInputs(d, g) ==
  CASE d.N = 1 -> [kind |-> "single", type |-> d.Tin,
                   elem |-> [i \in {0} |-> NewPort(d.Uin[0], g[0])]]
    [] d.N = 0 -> [kind |-> "empty", type |-> d.Tin, elem |-> <<>>]
    [] OTHER   -> createInputs(d, g)

createOutputs(d, g) ==
  IF allDimensionLess(d.Uout)
  THEN [kind |-> "array", type |-> d.Tout,
        elem |-> [i \in 0..(d.M - 1) |-> NewPort(Dimensionless, g[i])]]
  ELSE [kind |-> "tuple", type |-> d.Tout,
        elem |-> [i \in 0..(d.M - 1) |-> NewPort(d.Uout[i], g[i])]]

(* createOutputs of the earlier revision of Blockio.hpp (lines 476-485):  *)
(* the homogeneity test reads Uin, the array has N elements of Tin, and   *)
(* the tuple has M elements of Tin with the units Uout.                   *)
createOutputsRev2(d, g) ==
  IF allDimensionLess(d.Uin)
  THEN [kind |-> "array", type |-> d.Tin,
        elem |-> [i \in 0..(d.N - 1) |-> NewPort(Dimensionless, g[i])]]
  ELSE [kind |-> "tuple", type |-> d.Tin,
        elem |-> [i \in 0..(d.M - 1) |-> NewPort(d.Uout[i], g[i])]]

generateMOutputs(d, g) ==
  CASE d.M = 1 -> [kind |-> "single", type |-> d.Tout,
                   elem |-> [i \in {0} |-> NewPort(d.Uout[0], g[0])]]
    [] d.M = 0 -> [kind |-> "empty", type |-> d.Tout, elem |-> <<>>]
    [] OTHER   -> createOutputs(d, g)

(* setOwner(this) on every port of a side, and clear() if asked. *)
OwnAll(st, clear) ==
  [st EXCEPT !.elem =
     [i \in DOMAIN st.elem |->
        [st.elem[i] EXCEPT !.owner = Self, !.ownerSets = @ + 1,
                           !.sig = IF clear THEN ZeroSignal ELSE @]]]

(* initalizeInputsAndOutputs(): outputs are owned and cleared when M is   *)
(* One or Multiple, inputs are owned when N is One or Multiple.            *)
(* Mutant: the fold over several outputs sets the owner but omits clear(). *)
initalizeOutputsNoFoldClear(d, st) ==
  CASE d.M = 1 -> OwnAll(st, TRUE)
    [] d.M > 1 -> OwnAll(st, FALSE)
    [] OTHER   -> st
initalizeOutputs(d, st) == IF d.M >= 1 THEN OwnAll(st, TRUE) ELSE st

(* Mutant: only the Multiple<N> branch sets the owner of the inputs. *)
initalizeInputsOnlyMultiple(d, st) == IF d.N > 1 THEN OwnAll(st, FALSE) ELSE st
initalizeInputs(d, st) == IF d.N >= 1 THEN OwnAll(st, FALSE) ELSE st

-----------------------------------------------------------------------------
(* The block's state as seen by the accessors. *)
StorageOf(s) == IF s = "in" THEN in ELSE out
CountOf(s) == IF s = "in" THEN decl.N ELSE decl.M
TypeOf(s) == IF s = "in" THEN decl.Tin ELSE decl.Tout
UnitsOf(s) == IF s = "in" THEN decl.Uin ELSE decl.Uout

Init ==
  /\ decl \in Decls
  /\ constructed = FALSE
  /\ in = [kind |-> "empty", type |-> decl.Tin, elem |-> <<>>]
  /\ out = [kind |-> "empty", type |-> decl.Tout, elem |-> <<>>]
  /\ running = FALSE
  /\ cursor = NoRef
  /\ fault = NoFault
  /\ written = {}

(* Blockio(f): member initialisers build the storage, then the body runs *)
(* initalizeInputsAndOutputs().                                            *)
Construct ==
  /\ ~constructed
  /\ \E gi, go \in [0..(MaxPorts - 1) -> Signal] :
        /\ in' = initalizeInputs(decl, generateNInputs(decl, gi))
        /\ out' = initalizeOutputs(decl, generateMOutputs(decl, go))
  /\ constructed' = TRUE
  /\ UNCHANGED <<decl, running, cursor, fault, written>>

(* The scheduler calls run(), which calls func(). *)
Run ==
  /\ constructed /\ ~running
  /\ running' = TRUE
  /\ UNCHANGED <<decl, constructed, in, out, cursor, fault, written>>

(* func() returns. *)
Return ==
  /\ running
  /\ running' = FALSE
  /\ cursor' = NoRef
  /\ UNCHANGED <<decl, constructed, in, out, fault, written>>

(* getIn() / getOut() requires One: the port itself. *)
GetSingle(s) ==
  /\ constructed
  /\ CountOf(s) = 1
  /\ cursor' = [side |-> s, slot |-> 0, req |-> 0, via |-> "single"]
  /\ UNCHANGED <<decl, constructed, in, out, running, fault, written>>

(* getIn<I>() / getOut<I>() requires Multiple: std::get<I> on the         *)
(* storage, which compiles only for I below its size.                      *)
GetStatic(s, I) ==
  /\ constructed
  /\ CountOf(s) > 1
  /\ I \in DOMAIN StorageOf(s).elem
  /\ cursor' = [side |-> s, slot |-> I, req |-> I, via |-> "static"]
  /\ UNCHANGED <<decl, constructed, in, out, running, fault, written>>

(* getIn(uint8_t) / getOut(uint8_t) requires Multiple: compiles only if  *)
(* the storage is an array of ports of the declared type; throws when the *)
(* converted index is not below N (M), which ends func() and run().  A    *)
(* slot past the array's end is undefined behaviour and is still returned *)
(* as a reference.                                                          *)
(* Mutant: the bounds test is index > N instead of index >= N. *)
GetRuntimeOffByOne(s, k) ==
  /\ constructed
  /\ CountOf(s) > 1
  /\ StorageOf(s).kind = "array" /\ StorageOf(s).type = TypeOf(s)
  /\ IF ToUint8(k) > CountOf(s)
     THEN /\ fault' = [block |-> Self, side |-> s]
          /\ cursor' = NoRef
          /\ running' = FALSE
     ELSE /\ cursor' = [side |-> s, slot |-> ToUint8(k), req |-> k,
                        via |-> "runtime"]
          /\ UNCHANGED <<running, fault>>
  /\ UNCHANGED <<decl, constructed, in, out, written>>

GetRuntime(s, k) ==
  /\ constructed
  /\ CountOf(s) > 1
  /\ StorageOf(s).kind = "array" /\ StorageOf(s).type = TypeOf(s)
  /\ IF ToUint8(k) >= CountOf(s)
     THEN /\ fault' = [block |-> Self, side |-> s]
          /\ cursor' = NoRef
          /\ running' = FALSE
     ELSE /\ cursor' = [side |-> s, slot |-> ToUint8(k), req |-> k,
                        via |-> "runtime"]
          /\ UNCHANGED <<running, fault>>
  /\ UNCHANGED <<decl, constructed, in, out, written>>

(* The algorithm writes an output signal through its reference:          *)
(* getSignal().setValue(v) or getSignal().setTimestamp(t).                *)
WriteOut(field, x) ==
  /\ running
  /\ cursor.side = "out"
  /\ cursor.slot \in DOMAIN out.elem
  /\ out' = [out EXCEPT !.elem[cursor.slot].sig[field] = x]
  /\ written' = written \cup {cursor.slot}
  /\ UNCHANGED <<decl, constructed, in, running, cursor, fault>>

SetValue == \E v \in Values \cup {Zero} : WriteOut("value", v)

SetTimestamp == \E t \in 0..MaxTime : WriteOut("ts", t)

(* Between two runs an upstream block writes the signal an input reads. *)
Feed ==
  /\ constructed /\ ~running
  /\ \E i \in DOMAIN in.elem, sg \in Signal :
        in' = [in EXCEPT !.elem[i].sig = sg]
  /\ UNCHANGED <<decl, constructed, out, running, cursor, fault, written>>

(* The accessors of each side. *)
getInSingle == GetSingle("in")
getOutSingle == GetSingle("out")
getInStatic(I) == GetStatic("in", I)
getOutStatic(I) == GetStatic("out", I)
getInRuntime(k) == GetRuntime("in", k)
getOutRuntime(k) == GetRuntime("out", k)

Next ==
  \/ Construct
  \/ Run
  \/ Return
  \/ getInSingle
  \/ getOutSingle
  \/ \E I \in 0..(MaxPorts - 1) : getInStatic(I) \/ getOutStatic(I)
  \/ \E k \in CallerIndices : getInRuntime(k) \/ getOutRuntime(k)
  \/ SetValue
  \/ SetTimestamp
  \/ Feed

Spec == Init /\ [][Next]_vars

-----------------------------------------------------------------------------
(* Properties *)

Via == {"single", "static", "runtime"}

(* Every variable has the shape the declarations above give it. *)
TypeOK ==
  /\ decl \in Decls
  /\ constructed \in BOOLEAN
  /\ IsStorage(in)
  /\ IsStorage(out)
  /\ running \in BOOLEAN
  /\ cursor \in {NoRef} \cup
       [side : Sides, slot : 0..(IndexWidth - 1),
        req : CallerIndices \cup 0..MaxPorts, via : Via]
  /\ fault \in {NoFault} \cup [block : {Self}, side : Sides]
  /\ written \subseteq 0..MaxPorts

(* Every reference an accessor (getIn/getOut, by no index, by template   *)
(* index or by runtime index) hands out designates the port the caller   *)
(* asked for: the slot exists in the storage, it is the index requested,  *)
(* and the port has the value type and the unit that the template         *)
(* arguments declare for that index.                                       *)
AccessReturnsDeclaredPort ==
  cursor # NoRef =>
    LET st == StorageOf(cursor.side) IN
    /\ cursor.slot \in DOMAIN st.elem
    /\ cursor.slot = cursor.req
    /\ cursor.req \in DOMAIN UnitsOf(cursor.side)
    /\ st.type = TypeOf(cursor.side)
    /\ UnitEqual(st.elem[cursor.slot].unit, UnitsOf(cursor.side)[cursor.req])

(* Once constructed, every port of both sides has this block as owner,    *)
(* set by exactly one setOwner call (a second call is a programming       *)
(* error of Port::setOwner).                                               *)
OwnedExactlyOnce ==
  constructed =>
    \A s \in Sides : \A i \in DOMAIN StorageOf(s).elem :
       /\ StorageOf(s).elem[i].owner = Self
       /\ StorageOf(s).elem[i].ownerSets = 1

(* An output that no run has written since construction still holds the  *)
(* cleared signal: a downstream block that reads it before this block's   *)
(* first cycle sees the zero value with an empty timestamp.               *)
UnwrittenOutputsAreClear ==
  constructed =>
    \A i \in DOMAIN out.elem \ written : out.elem[i].sig = ZeroSignal

(* The unit of every port of the block is denoted by at most one name of *)
(* the HAL unit registry typeOfUnit, under SIUnit::operator==: a port      *)
(* declared in volt can never be taken for a watt port by a lookup of its *)
(* unit's name.                                                            *)
PortUnitNamedOnce ==
  \A s \in Sides : \A i \in DOMAIN StorageOf(s).elem :
     \A x, y \in UnitNames :
        /\ UnitEqual(typeOfUnit[x], StorageOf(s).elem[i].unit)
        /\ UnitEqual(typeOfUnit[y], StorageOf(s).elem[i].unit)
        => x = y

(* A runtime-indexed access getIn(i) / getOut(i) throws                   *)
(* IndexOutOfBoundsFault exactly when the index the caller passed is not  *)
(* below the port count (a throw leaves the algorithm without reference). *)
RuntimeFaultExactlyOutOfRange ==
  [][\A s \in Sides, k \in CallerIndices :
        GetRuntime(s, k) => (cursor' = NoRef <=> k >= CountOf(s))]_vars

(* The storage rule of the specification: a side with several ports whose *)
(* declared units all equal the first one is stored as a collection that  *)
(* can be indexed at runtime.                                              *)
SpecHomogeneousSideIsIndexable ==
  constructed =>
    \A s \in Sides :
       (/\ CountOf(s) > 1
        /\ \A i \in DOMAIN UnitsOf(s) :
              UnitEqual(UnitsOf(s)[i], UnitsOf(s)[0]))
       => StorageOf(s).kind = "array"

=============================================================================
