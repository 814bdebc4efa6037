--------------------------- MODULE BlockioProofs ---------------------------
(***************************************************************************)
(* Proofs about the generic block, for every value of the constants.      *)
(***************************************************************************)
EXTENDS Blockio, SIUnitProofs, TLAPS

USE MaxPortsAssumption, MaxTimeAssumption, CallerIndicesAssumption,
    DeclUnitsAssumption, ZeroAssumption, OwnerAssumption

(* The fields of an instantiation range over the declared bounds. *)
LEMMA DeclFacts ==
  ASSUME NEW d \in Decls
  PROVE  /\ d.N \in 0..MaxPorts /\ d.M \in 0..MaxPorts
         /\ d.Tin \in Types /\ d.Tout \in Types
         /\ d.Uin \in [0..(d.N - 1) -> DeclUnits]
         /\ d.Uout \in [0..(d.M - 1) -> DeclUnits]
BY DEF Decls, UnitArrays

(* The units a port may carry are units. *)
LEMMA PortUnitsAreUnits == PortUnits \subseteq UnitSet(Int)
<1>1. Dimensionless \in UnitSet(Int)
  BY DEF Dimensionless, Create, UnitSet
<1>. QED  BY <1>1 DEF PortUnits

(* A record of a kind, a type and n ports is a storage. *)
LEMMA StorageIntro ==
  ASSUME NEW k \in Kinds, NEW t \in Types, NEW n \in 0..MaxPorts,
         NEW e \in [0..(n - 1) -> Port]
  PROVE  IsStorage([kind |-> k, type |-> t, elem |-> e])
BY DEF IsStorage

(* A fresh port with a unit and a signal is a port. *)
LEMMA NewPortType ==
  ASSUME NEW u \in PortUnits, NEW sg \in Signal
  PROVE  NewPort(u, sg) \in Port
BY DEF NewPort, Port

(* Fresh ports with the declared units, one per index, form a function *)
(* from the indices to ports; so do fresh dimensionless ports.            *)
LEMMA FreshPorts ==
  ASSUME NEW n \in 0..MaxPorts, NEW g \in [0..(MaxPorts - 1) -> Signal],
         NEW U \in [0..(n - 1) -> PortUnits]
  PROVE  /\ [i \in 0..(n - 1) |-> NewPort(U[i], g[i])] \in [0..(n - 1) -> Port]
         /\ [i \in 0..(n - 1) |-> NewPort(Dimensionless, g[i])]
              \in [0..(n - 1) -> Port]
<1>1. \A i \in 0..(n - 1) : g[i] \in Signal
  OBVIOUS
<1>2. Dimensionless \in PortUnits
  BY DEF PortUnits
<1>. QED  BY <1>1, <1>2, NewPortType

(* The defaulted operator== of SIUnit is reflexive. *)
LEMMA UnitEqualRefl == \A u : UnitEqual(u, u)
BY DEF UnitEqual

(* The defaulted operator== of SIUnit is symmetric. *)
LEMMA UnitEqualSym == \A u, v : UnitEqual(u, v) => UnitEqual(v, u)
BY DEF UnitEqual

(* generateNInputs builds a storage of N fresh ports of type Tin,   *)
(* each with the unit declared for its index.                             *)
LEMMA InputsShape ==
  ASSUME NEW d \in Decls, NEW g \in [0..(MaxPorts - 1) -> Signal]
  PROVE  LET st == generateNInputs(d, g)
         IN  /\ IsStorage(st)
             /\ st.type = d.Tin
             /\ DOMAIN st.elem = 0..(d.N - 1)
             /\ \A i \in DOMAIN st.elem :
                   /\ st.elem[i].owner = NoOwner /\ st.elem[i].ownerSets = 0
                   /\ UnitEqual(st.elem[i].unit, d.Uin[i])
<1> DEFINE st == generateNInputs(d, g)
<1>1. d.N \in 0..MaxPorts /\ d.Tin \in Types
      /\ d.Uin \in [0..(d.N - 1) -> DeclUnits]
  BY DeclFacts
<1>2. d.Uin \in [0..(d.N - 1) -> PortUnits]
  BY <1>1 DEF PortUnits
<1>3. Dimensionless \in PortUnits
  BY DEF PortUnits
<1>4. CASE d.N = 1
  <2>1. st = [kind |-> "single", type |-> d.Tin,
              elem |-> [i \in 0..(d.N - 1) |-> NewPort(d.Uin[i], g[i])]]
    <3>1. {0} = 0..(d.N - 1)
      BY <1>4
    <3>. QED  BY <1>4, <3>1 DEF generateNInputs
  <2>2. [i \in 0..(d.N - 1) |-> NewPort(d.Uin[i], g[i])]
          \in [0..(d.N - 1) -> Port]
    BY <1>1, <1>2, FreshPorts
  <2>3. IsStorage(st)
    BY <1>1, <2>1, <2>2, StorageIntro DEF Kinds
  <2>4. \A i \in 0..(d.N - 1) : UnitEqual(d.Uin[i], d.Uin[i])
    BY UnitEqualRefl
  <2>. QED  BY <2>1, <2>3, <2>4 DEF NewPort
<1>5. CASE d.N = 0
  <2>1. st = [kind |-> "empty", type |-> d.Tin, elem |-> <<>>]
    BY <1>5 DEF generateNInputs
  <2>2. DOMAIN st.elem = 0..(d.N - 1)
    BY <1>5, <2>1
  <2>3. IsStorage(st)
    <3>1. \E k \in 0..MaxPorts : DOMAIN st.elem = 0..(k - 1)
      BY <1>5, <1>1, <2>2
    <3>. QED  BY <1>1, <2>1, <3>1 DEF IsStorage, Kinds
  <2>. QED  BY <2>1, <2>2, <2>3
<1>6. CASE d.N # 0 /\ d.N # 1
  <2>1. st = createInputs(d, g)
    BY <1>6 DEF generateNInputs
  <2>2. CASE allDimensionLess(d.Uin)
    <3>1. st = [kind |-> "array", type |-> d.Tin,
                elem |-> [i \in 0..(d.N - 1) |-> NewPort(Dimensionless, g[i])]]
      BY <2>1, <2>2 DEF createInputs
    <3>2. [i \in 0..(d.N - 1) |-> NewPort(Dimensionless, g[i])]
            \in [0..(d.N - 1) -> Port]
      BY <1>1, <1>2, FreshPorts
    <3>3. IsStorage(st)
      BY <1>1, <3>1, <3>2, StorageIntro DEF Kinds
    <3>4. \A i \in 0..(d.N - 1) : UnitEqual(Dimensionless, d.Uin[i])
      BY <1>1, <2>2, UnitEqualSym DEF allDimensionLess
    <3>. QED  BY <3>1, <3>3, <3>4 DEF NewPort
  <2>3. CASE ~allDimensionLess(d.Uin)
    <3>1. st = [kind |-> "tuple", type |-> d.Tin,
                elem |-> [i \in 0..(d.N - 1) |-> NewPort(d.Uin[i], g[i])]]
      BY <2>1, <2>3 DEF createInputs
    <3>2. [i \in 0..(d.N - 1) |-> NewPort(d.Uin[i], g[i])]
            \in [0..(d.N - 1) -> Port]
      BY <1>1, <1>2, FreshPorts
    <3>3. IsStorage(st)
      BY <1>1, <3>1, <3>2, StorageIntro DEF Kinds
    <3>4. \A i \in 0..(d.N - 1) : UnitEqual(d.Uin[i], d.Uin[i])
      BY UnitEqualRefl
    <3>. QED  BY <3>1, <3>3, <3>4 DEF NewPort
  <2>. QED  BY <2>2, <2>3
<1>. QED  BY <1>4, <1>5, <1>6

(* generateMOutputs builds a storage of M fresh ports of type Tout, *)
(* each with the unit declared for its index.                             *)
LEMMA OutputsShape ==
  ASSUME NEW d \in Decls, NEW g \in [0..(MaxPorts - 1) -> Signal]
  PROVE  LET st == generateMOutputs(d, g)
         IN  /\ IsStorage(st)
             /\ st.type = d.Tout
             /\ DOMAIN st.elem = 0..(d.M - 1)
             /\ \A i \in DOMAIN st.elem :
                   /\ st.elem[i].owner = NoOwner /\ st.elem[i].ownerSets = 0
                   /\ UnitEqual(st.elem[i].unit, d.Uout[i])
<1> DEFINE st == generateMOutputs(d, g)
<1>1. d.M \in 0..MaxPorts /\ d.Tout \in Types
      /\ d.Uout \in [0..(d.M - 1) -> DeclUnits]
  BY DeclFacts
<1>2. d.Uout \in [0..(d.M - 1) -> PortUnits]
  BY <1>1 DEF PortUnits
<1>3. Dimensionless \in PortUnits
  BY DEF PortUnits
<1>4. CASE d.M = 1
  <2>1. st = [kind |-> "single", type |-> d.Tout,
              elem |-> [i \in 0..(d.M - 1) |-> NewPort(d.Uout[i], g[i])]]
    <3>1. {0} = 0..(d.M - 1)
      BY <1>4
    <3>. QED  BY <1>4, <3>1 DEF generateMOutputs
  <2>2. [i \in 0..(d.M - 1) |-> NewPort(d.Uout[i], g[i])]
          \in [0..(d.M - 1) -> Port]
    BY <1>1, <1>2, FreshPorts
  <2>3. IsStorage(st)
    BY <1>1, <2>1, <2>2, StorageIntro DEF Kinds
  <2>4. \A i \in 0..(d.M - 1) : UnitEqual(d.Uout[i], d.Uout[i])
    BY UnitEqualRefl
  <2>. QED  BY <2>1, <2>3, <2>4 DEF NewPort
<1>5. CASE d.M = 0
  <2>1. st = [kind |-> "empty", type |-> d.Tout, elem |-> <<>>]
    BY <1>5 DEF generateMOutputs
  <2>2. DOMAIN st.elem = 0..(d.M - 1)
    BY <1>5, <2>1
  <2>3. IsStorage(st)
    <3>1. \E k \in 0..MaxPorts : DOMAIN st.elem = 0..(k - 1)
      BY <1>5, <1>1, <2>2
    <3>. QED  BY <1>1, <2>1, <3>1 DEF IsStorage, Kinds
  <2>. QED  BY <2>1, <2>2, <2>3
<1>6. CASE d.M # 0 /\ d.M # 1
  <2>1. st = createOutputs(d, g)
    BY <1>6 DEF generateMOutputs
  <2>2. CASE allDimensionLess(d.Uout)
    <3>1. st = [kind |-> "array", type |-> d.Tout,
                elem |-> [i \in 0..(d.M - 1) |-> NewPort(Dimensionless, g[i])]]
      BY <2>1, <2>2 DEF createOutputs
    <3>2. [i \in 0..(d.M - 1) |-> NewPort(Dimensionless, g[i])]
            \in [0..(d.M - 1) -> Port]
      BY <1>1, <1>2, FreshPorts
    <3>3. IsStorage(st)
      BY <1>1, <3>1, <3>2, StorageIntro DEF Kinds
    <3>4. \A i \in 0..(d.M - 1) : UnitEqual(Dimensionless, d.Uout[i])
      BY <1>1, <2>2, UnitEqualSym DEF allDimensionLess
    <3>. QED  BY <3>1, <3>3, <3>4 DEF NewPort
  <2>3. CASE ~allDimensionLess(d.Uout)
    <3>1. st = [kind |-> "tuple", type |-> d.Tout,
                elem |-> [i \in 0..(d.M - 1) |-> NewPort(d.Uout[i], g[i])]]
      BY <2>1, <2>3 DEF createOutputs
    <3>2. [i \in 0..(d.M - 1) |-> NewPort(d.Uout[i], g[i])]
            \in [0..(d.M - 1) -> Port]
      BY <1>1, <1>2, FreshPorts
    <3>3. IsStorage(st)
      BY <1>1, <3>1, <3>2, StorageIntro DEF Kinds
    <3>4. \A i \in 0..(d.M - 1) : UnitEqual(d.Uout[i], d.Uout[i])
      BY UnitEqualRefl
    <3>. QED  BY <3>1, <3>3, <3>4 DEF NewPort
  <2>. QED  BY <2>2, <2>3
<1>. QED  BY <1>4, <1>5, <1>6

(* setOwner (and clear) on every port of a storage keeps it a storage   *)
(* of the same type and indices, and bumps each port's setOwner count.    *)
LEMMA OwnAllShape ==
  ASSUME NEW st, IsStorage(st), NEW clear \in BOOLEAN
  PROVE  LET o == OwnAll(st, clear)
         IN  /\ IsStorage(o)
             /\ o.kind = st.kind /\ o.type = st.type
             /\ DOMAIN o.elem = DOMAIN st.elem
             /\ \A i \in DOMAIN o.elem :
                   /\ o.elem[i].owner = Self
                   /\ o.elem[i].ownerSets = st.elem[i].ownerSets + 1
                   /\ o.elem[i].unit = st.elem[i].unit
                   /\ o.elem[i].sig = IF clear THEN ZeroSignal ELSE st.elem[i].sig
<1> DEFINE o == OwnAll(st, clear)
<1> DEFINE E == [i \in DOMAIN st.elem |->
                  [st.elem[i] EXCEPT !.owner = Self, !.ownerSets = @ + 1,
                     !.sig = IF clear THEN ZeroSignal ELSE @]]
<1>1. /\ DOMAIN o = {"kind", "type", "elem"}
      /\ o.kind = st.kind /\ o.type = st.type /\ o.elem = E
  BY DEF OwnAll, IsStorage
<1>2. ZeroSignal \in Signal
  BY ZeroAssumption, MaxTimeAssumption DEF ZeroSignal, Signal
<1>3. \A i \in DOMAIN st.elem : st.elem[i] \in Port
  BY DEF IsStorage
<1>4. \A i \in DOMAIN st.elem :
        /\ E[i] \in Port
        /\ E[i].owner = Self
        /\ E[i].ownerSets = st.elem[i].ownerSets + 1
        /\ E[i].unit = st.elem[i].unit
        /\ E[i].sig = IF clear THEN ZeroSignal ELSE st.elem[i].sig
  <2> SUFFICES ASSUME NEW i \in DOMAIN st.elem
               PROVE  /\ E[i] \in Port
                      /\ E[i].owner = Self
                      /\ E[i].ownerSets = st.elem[i].ownerSets + 1
                      /\ E[i].unit = st.elem[i].unit
                      /\ E[i].sig = IF clear THEN ZeroSignal ELSE st.elem[i].sig
    OBVIOUS
  <2> DEFINE p == st.elem[i]
  <2>1. p \in Port
    BY <1>3
  <2>2. E[i] = [unit |-> p.unit, owner |-> Self, ownerSets |-> p.ownerSets + 1,
                sig |-> IF clear THEN ZeroSignal ELSE p.sig]
    BY <2>1 DEF Port
  <2>3. (IF clear THEN ZeroSignal ELSE p.sig) \in Signal
    BY <1>2, <2>1 DEF Port
  <2>4. p.unit \in PortUnits /\ p.ownerSets + 1 \in Nat
    BY <2>1 DEF Port
  <2>5. E[i] \in Port
    BY <2>2, <2>3, <2>4 DEF Port
  <2>. QED  BY <2>2, <2>5
<1>5. IsStorage(o)
  BY <1>1, <1>4 DEF IsStorage
<1>. QED  BY <1>1, <1>4, <1>5

(* Replacing the signal of one port keeps a storage a storage with the   *)
(* same shape, and leaves every other port and every unit and owner as it  *)
(* was.                                                                     *)
LEMMA SetSignal ==
  ASSUME NEW st, IsStorage(st), NEW j \in DOMAIN st.elem, NEW sg \in Signal
  PROVE  LET o == [st EXCEPT !.elem[j].sig = sg]
         IN  /\ IsStorage(o)
             /\ o.kind = st.kind /\ o.type = st.type
             /\ DOMAIN o.elem = DOMAIN st.elem
             /\ o.elem[j].sig = sg
             /\ \A i \in DOMAIN o.elem :
                   /\ o.elem[i].unit = st.elem[i].unit
                   /\ o.elem[i].owner = st.elem[i].owner
                   /\ o.elem[i].ownerSets = st.elem[i].ownerSets
                   /\ i # j => o.elem[i].sig = st.elem[i].sig
<1> DEFINE o == [st EXCEPT !.elem[j].sig = sg]
<1>1. st.elem[j] \in Port
  BY DEF IsStorage
<1>2. /\ DOMAIN o = {"kind", "type", "elem"}
      /\ o.kind = st.kind /\ o.type = st.type
      /\ o.elem = [st.elem EXCEPT ![j] = [st.elem[j] EXCEPT !.sig = sg]]
  BY DEF IsStorage
<1>3. [st.elem[j] EXCEPT !.sig = sg] \in Port
  BY <1>1 DEF Port
<1>. QED  BY <1>1, <1>2, <1>3 DEF IsStorage, Port

(* The signal that setValue / setTimestamp leaves in a port is a signal. *)
LEMMA WriteSignal ==
  ASSUME NEW sg \in Signal,
         NEW field \in {"value", "ts"}, NEW x,
         field = "value" => x \in Values \cup {Zero},
         field = "ts" => x \in 0..MaxTime
  PROVE  [sg EXCEPT ![field] = x] \in Signal
BY DEF Signal

-----------------------------------------------------------------------------
(* One step of the block keeps every variable in its type. *)
LEMMA TypeOKStep == TypeOK /\ [Next]_vars => TypeOK'
<1> SUFFICES ASSUME TypeOK, [Next]_vars PROVE TypeOK'
  OBVIOUS
<1> USE DEF TypeOK
<1>1. CASE Construct
  <2>1. PICK gi, go \in [0..(MaxPorts - 1) -> Signal] :
          /\ in' = initalizeInputs(decl, generateNInputs(decl, gi))
          /\ out' = initalizeOutputs(decl, generateMOutputs(decl, go))
    BY <1>1 DEF Construct
  <2>2. IsStorage(in')
    <3>1. IsStorage(generateNInputs(decl, gi))
      BY InputsShape
    <3>. QED  BY <2>1, <3>1, OwnAllShape DEF initalizeInputs
  <2>3. IsStorage(out')
    <3>1. IsStorage(generateMOutputs(decl, go))
      BY OutputsShape
    <3>. QED  BY <2>1, <3>1, OwnAllShape DEF initalizeOutputs
  <2>. QED  BY <1>1, <2>2, <2>3 DEF Construct
<1>2. CASE Run
  BY <1>2 DEF Run
<1>3. CASE Return
  BY <1>3 DEF Return
<1>4. ASSUME NEW s \in Sides, GetSingle(s) PROVE TypeOK'
  BY <1>4, MaxPortsAssumption DEF GetSingle, Via, IndexWidth
<1>5. ASSUME NEW s \in Sides, NEW I \in 0..(MaxPorts - 1), GetStatic(s, I)
      PROVE  TypeOK'
  BY <1>5, MaxPortsAssumption DEF GetStatic, Via, IndexWidth
<1>6. ASSUME NEW s \in Sides, NEW k \in CallerIndices, GetRuntime(s, k)
      PROVE  TypeOK'
  <2>1. ToUint8(k) \in 0..(IndexWidth - 1)
    BY CallerIndicesAssumption DEF ToUint8, IndexWidth
  <2>2. CASE ToUint8(k) >= CountOf(s)
    <3>1. fault' = [block |-> Self, side |-> s] /\ cursor' = NoRef
          /\ running' = FALSE
      BY <1>6, <2>2 DEF GetRuntime
    <3>2. UNCHANGED <<decl, constructed, in, out, written>>
      BY <1>6 DEF GetRuntime
    <3>. QED  BY <3>1, <3>2
  <2>3. CASE ~(ToUint8(k) >= CountOf(s))
    BY <1>6, <2>1, <2>3 DEF GetRuntime, Via
  <2>. QED  BY <2>2, <2>3
<1>7. ASSUME NEW field \in {"value", "ts"}, NEW x,
             field = "value" => x \in Values \cup {Zero},
             field = "ts" => x \in 0..MaxTime,
             WriteOut(field, x)
      PROVE  TypeOK'
  <2> DEFINE j == cursor.slot
  <2>1. j \in DOMAIN out.elem /\ out.elem[j] \in Port
    BY <1>7 DEF WriteOut, IsStorage
  <2>2. [out.elem[j].sig EXCEPT ![field] = x] \in Signal
    BY <2>1, <1>7, WriteSignal DEF Port
  <2>3. out' = [out EXCEPT !.elem[j].sig = [out.elem[j].sig EXCEPT ![field] = x]]
    BY <1>7, <2>1 DEF WriteOut
  <2>4. IsStorage(out')
    BY <2>1, <2>2, <2>3, SetSignal
  <2>5. j \in 0..MaxPorts
    BY <2>1 DEF IsStorage
  <2>. QED  BY <1>7, <2>4, <2>5 DEF WriteOut
<1>8. CASE Feed
  <2>1. PICK i \in DOMAIN in.elem, sg \in Signal :
          in' = [in EXCEPT !.elem[i].sig = sg]
    BY <1>8 DEF Feed
  <2>2. IsStorage(in')
    BY <2>1, SetSignal
  <2>. QED  BY <1>8, <2>2 DEF Feed
<1>9. CASE UNCHANGED vars
  BY <1>9 DEF vars
<1>. QED
  <2>1. CASE SetValue
    BY <2>1, <1>7 DEF SetValue
  <2>2. CASE SetTimestamp
    BY <2>2, <1>7 DEF SetTimestamp
  <2>. QED
    BY <1>1, <1>2, <1>3, <1>4, <1>5, <1>6, <1>8, <1>9, <2>1, <2>2
    DEF Next, Sides, getInSingle, getOutSingle, getInStatic, getOutStatic,
        getInRuntime, getOutRuntime

(* The initial state, before the constructor, is well typed. *)
LEMMA TypeOKInit == Init => TypeOK
<1> SUFFICES ASSUME Init PROVE TypeOK
  OBVIOUS
<1>1. decl.Tin \in Types /\ decl.Tout \in Types
  BY DeclFacts DEF Init
<1>2. << >> \in [0..(0 - 1) -> Port] /\ 0 \in 0..MaxPorts
  BY MaxPortsAssumption
<1>3. IsStorage(in) /\ IsStorage(out)
  BY <1>1, <1>2, StorageIntro DEF Init, Kinds
<1>. QED  BY <1>3 DEF Init, TypeOK

(* Type correctness: construction, the scheduler's run/return, every      *)
(* accessor (including a runtime index that throws), the algorithm's      *)
(* writes and the upstream writes keep every variable in its type.        *)
(***************************************************************************)
THEOREM TypeCorrect == Spec => []TypeOK
<1>1. Init => TypeOK
  BY TypeOKInit
<1>2. TypeOK /\ [Next]_vars => TypeOK'
  BY TypeOKStep
<1>. QED  BY <1>1, <1>2, PTL DEF Spec

(* The unit of every port, whatever the declaration, is denoted by at    *)
(* most one name of the HAL registry: the ports' units are units with    *)
(* integer exponents, on which operator== is the identity, and the       *)
(* registry's entries are pairwise distinct.                              *)
THEOREM PortUnitsNamedOnceSafe == Spec => []PortUnitNamedOnce
<1>1. TypeOK => PortUnitNamedOnce
  <2> SUFFICES ASSUME TypeOK, NEW s \in Sides,
                      NEW i \in DOMAIN StorageOf(s).elem,
                      NEW x \in UnitNames, NEW y \in UnitNames,
                      UnitEqual(typeOfUnit[x], StorageOf(s).elem[i].unit),
                      UnitEqual(typeOfUnit[y], StorageOf(s).elem[i].unit)
               PROVE  x = y
    BY DEF PortUnitNamedOnce
  <2>1. StorageOf(s).elem[i].unit \in UnitSet(Int)
    <3>1. IsStorage(StorageOf(s))
      BY DEF TypeOK, StorageOf, Sides
    <3>. QED  BY <3>1, PortUnitsAreUnits DEF IsStorage, Port
  <2>2. typeOfUnit[x] = typeOfUnit[y]
    BY <2>1, NamedUnitsAreUnits, UnitEqualIsIdentity
  <2>. QED  BY <2>2, NamedUnitsAreDistinct, NamedUnitsAreUnits,
               UnitEqualIsIdentity DEF NamedUnitsDistinct
<1>. QED  BY <1>1, TypeCorrect, PTL

-----------------------------------------------------------------------------
(* The inductive invariant behind the safety properties.  Before the     *)
(* constructor nothing has run; after it, each side's storage has the     *)
(* declared value type, one port per declared index, and at every index  *)
(* the declared unit (the array of a dimensionless side holds the         *)
(* dimensionless unit, which equals every declared unit of that side).    *)
SideMatchesDecl(s) ==
  /\ StorageOf(s).type = TypeOf(s)
  /\ DOMAIN StorageOf(s).elem = 0..(CountOf(s) - 1)
  /\ \A i \in DOMAIN StorageOf(s).elem :
        UnitEqual(StorageOf(s).elem[i].unit, UnitsOf(s)[i])

StructInv ==
  /\ TypeOK
  /\ ~constructed => cursor = NoRef /\ ~running /\ written = {}
  /\ constructed => \A s \in Sides : SideMatchesDecl(s)
  /\ OwnedExactlyOnce
  /\ UnwrittenOutputsAreClear

IInv == StructInv /\ AccessReturnsDeclaredPort

(* The constructor's inputs: the storage of generateNInputs with every    *)
(* port owned once.                                                       *)
LEMMA ConstructedInputs ==
  ASSUME NEW d \in Decls, NEW g \in [0..(MaxPorts - 1) -> Signal]
  PROVE  LET st == initalizeInputs(d, generateNInputs(d, g))
         IN  /\ IsStorage(st)
             /\ st.type = d.Tin
             /\ DOMAIN st.elem = 0..(d.N - 1)
             /\ \A i \in DOMAIN st.elem :
                   /\ st.elem[i].owner = Self /\ st.elem[i].ownerSets = 1
                   /\ UnitEqual(st.elem[i].unit, d.Uin[i])
<1> DEFINE g0 == generateNInputs(d, g)
<1>1. /\ IsStorage(g0) /\ g0.type = d.Tin /\ DOMAIN g0.elem = 0..(d.N - 1)
      /\ \A i \in DOMAIN g0.elem :
            /\ g0.elem[i].owner = NoOwner /\ g0.elem[i].ownerSets = 0
            /\ UnitEqual(g0.elem[i].unit, d.Uin[i])
  BY InputsShape
<1>2. CASE d.N >= 1
  <2> DEFINE o == OwnAll(g0, FALSE)
  <2>1. initalizeInputs(d, g0) = o
    BY <1>2 DEF initalizeInputs
  <2>2. /\ IsStorage(o) /\ o.type = g0.type
        /\ DOMAIN o.elem = DOMAIN g0.elem
        /\ \A i \in DOMAIN o.elem :
              /\ o.elem[i].owner = Self
              /\ o.elem[i].ownerSets = g0.elem[i].ownerSets + 1
              /\ o.elem[i].unit = g0.elem[i].unit
              /\ o.elem[i].sig = IF FALSE THEN ZeroSignal ELSE g0.elem[i].sig
    BY <1>1, OwnAllShape
  <2>3. \A i \in DOMAIN o.elem :
              /\ o.elem[i].owner = Self /\ o.elem[i].ownerSets = 1
              /\ UnitEqual(o.elem[i].unit, d.Uin[i])
    <3> SUFFICES ASSUME NEW i \in DOMAIN o.elem
                 PROVE  /\ o.elem[i].owner = Self /\ o.elem[i].ownerSets = 1
                        /\ UnitEqual(o.elem[i].unit, d.Uin[i])
      OBVIOUS
    <3>1. i \in DOMAIN g0.elem
      BY <2>2
    <3>2. o.elem[i].unit = g0.elem[i].unit /\ UnitEqual(g0.elem[i].unit, d.Uin[i])
      BY <1>1, <2>2, <3>1
    <3>3. UnitEqual(o.elem[i].unit, d.Uin[i])
      BY <3>2
    <3>4. o.elem[i].owner = Self
          /\ o.elem[i].ownerSets = g0.elem[i].ownerSets + 1
      BY <2>2
    <3>5. g0.elem[i].ownerSets = 0
      BY <1>1, <3>1
    <3>6. o.elem[i].ownerSets = 1
      <4>1. \A x, y : x = y + 1 /\ y = 0 => x = 1
        OBVIOUS
      <4>. QED  BY <3>4, <3>5, <4>1, Zenon
    <3>. QED  BY <3>3, <3>4, <3>6
  <2>. QED  BY <1>1, <2>1, <2>2, <2>3
<1>3. CASE ~(d.N >= 1)
  <2>1. DOMAIN g0.elem = {}
    BY <1>1, <1>3, DeclFacts
  <2>. QED  BY <1>1, <1>3, <2>1 DEF initalizeInputs
<1>. QED  BY <1>2, <1>3

(* The constructor's outputs: the storage of generateMOutputs with every  *)
(* port owned once and cleared.                                           *)
LEMMA ConstructedOutputs ==
  ASSUME NEW d \in Decls, NEW g \in [0..(MaxPorts - 1) -> Signal]
  PROVE  LET st == initalizeOutputs(d, generateMOutputs(d, g))
         IN  /\ IsStorage(st)
             /\ st.type = d.Tout
             /\ DOMAIN st.elem = 0..(d.M - 1)
             /\ \A i \in DOMAIN st.elem :
                   /\ st.elem[i].owner = Self /\ st.elem[i].ownerSets = 1
                   /\ UnitEqual(st.elem[i].unit, d.Uout[i])
                   /\ st.elem[i].sig = ZeroSignal
<1> DEFINE g0 == generateMOutputs(d, g)
<1>1. /\ IsStorage(g0) /\ g0.type = d.Tout /\ DOMAIN g0.elem = 0..(d.M - 1)
      /\ \A i \in DOMAIN g0.elem :
            /\ g0.elem[i].owner = NoOwner /\ g0.elem[i].ownerSets = 0
            /\ UnitEqual(g0.elem[i].unit, d.Uout[i])
  BY OutputsShape
<1>2. CASE d.M >= 1
  <2> DEFINE o == OwnAll(g0, TRUE)
  <2>1. initalizeOutputs(d, g0) = o
    BY <1>2 DEF initalizeOutputs
  <2>2. /\ IsStorage(o) /\ o.type = g0.type
        /\ DOMAIN o.elem = DOMAIN g0.elem
        /\ \A i \in DOMAIN o.elem :
              /\ o.elem[i].owner = Self
              /\ o.elem[i].ownerSets = g0.elem[i].ownerSets + 1
              /\ o.elem[i].unit = g0.elem[i].unit
              /\ o.elem[i].sig = IF TRUE THEN ZeroSignal ELSE g0.elem[i].sig
    BY <1>1, OwnAllShape
  <2>3. \A i \in DOMAIN o.elem :
              /\ o.elem[i].owner = Self /\ o.elem[i].ownerSets = 1
              /\ UnitEqual(o.elem[i].unit, d.Uout[i])
              /\ o.elem[i].sig = ZeroSignal
    <3> SUFFICES ASSUME NEW i \in DOMAIN o.elem
                 PROVE  /\ o.elem[i].owner = Self /\ o.elem[i].ownerSets = 1
                        /\ UnitEqual(o.elem[i].unit, d.Uout[i])
                        /\ o.elem[i].sig = ZeroSignal
      OBVIOUS
    <3>1. i \in DOMAIN g0.elem
      BY <2>2
    <3>2. o.elem[i].unit = g0.elem[i].unit /\ UnitEqual(g0.elem[i].unit, d.Uout[i])
      BY <1>1, <2>2, <3>1
    <3>3. UnitEqual(o.elem[i].unit, d.Uout[i])
      BY <3>2
    <3>4. o.elem[i].owner = Self
          /\ o.elem[i].ownerSets = g0.elem[i].ownerSets + 1
      BY <2>2
    <3>5. g0.elem[i].ownerSets = 0
      BY <1>1, <3>1
    <3>6. o.elem[i].ownerSets = 1
      <4>1. \A x, y : x = y + 1 /\ y = 0 => x = 1
        OBVIOUS
      <4>. QED  BY <3>4, <3>5, <4>1, Zenon
    <3>7. o.elem[i].sig = ZeroSignal
      BY <2>2
    <3>. QED  BY <3>3, <3>4, <3>6, <3>7
  <2>. QED  BY <1>1, <2>1, <2>2, <2>3
<1>3. CASE ~(d.M >= 1)
  <2>1. DOMAIN g0.elem = {}
    BY <1>1, <1>3, DeclFacts
  <2>. QED  BY <1>1, <1>3, <2>1 DEF initalizeOutputs
<1>. QED  BY <1>2, <1>3

(* A step that leaves the template arguments, the storages, the          *)
(* construction flag and the write history alone keeps the structural     *)
(* part of the invariant once the block is constructed.                    *)
LEMMA StructFrame ==
  ASSUME StructInv, constructed,
         UNCHANGED <<decl, constructed, in, out, written>>, TypeOK'
  PROVE  StructInv'
BY DEF StructInv, SideMatchesDecl, StorageOf, TypeOf, CountOf, UnitsOf,
       OwnedExactlyOnce, UnwrittenOutputsAreClear

(* One step of the block keeps the structural invariant. *)
LEMMA StructInvStep == StructInv /\ [Next]_vars => StructInv'
<1> SUFFICES ASSUME StructInv, [Next]_vars PROVE StructInv'
  OBVIOUS
<1>1. TypeOK'
  BY TypeOKStep DEF StructInv
<1>2. running => constructed
  BY DEF StructInv
<1>3. CASE Construct
  <2>1. PICK gi, go \in [0..(MaxPorts - 1) -> Signal] :
          /\ in' = initalizeInputs(decl, generateNInputs(decl, gi))
          /\ out' = initalizeOutputs(decl, generateMOutputs(decl, go))
    BY <1>3 DEF Construct
  <2>2. decl \in Decls
    BY DEF StructInv, TypeOK
  <2>3. /\ in'.type = decl.Tin /\ DOMAIN in'.elem = 0..(decl.N - 1)
        /\ \A i \in DOMAIN in'.elem :
              /\ in'.elem[i].owner = Self /\ in'.elem[i].ownerSets = 1
              /\ UnitEqual(in'.elem[i].unit, decl.Uin[i])
    BY <2>1, <2>2, ConstructedInputs
  <2>4. /\ out'.type = decl.Tout /\ DOMAIN out'.elem = 0..(decl.M - 1)
        /\ \A i \in DOMAIN out'.elem :
              /\ out'.elem[i].owner = Self /\ out'.elem[i].ownerSets = 1
              /\ UnitEqual(out'.elem[i].unit, decl.Uout[i])
              /\ out'.elem[i].sig = ZeroSignal
    BY <2>1, <2>2, ConstructedOutputs
  <2>5. written' = {} /\ decl' = decl /\ constructed'
    BY <1>3 DEF Construct, StructInv
  <2>. QED
    BY <1>1, <2>3, <2>4, <2>5
    DEF StructInv, SideMatchesDecl, StorageOf, TypeOf, CountOf, UnitsOf,
        OwnedExactlyOnce, UnwrittenOutputsAreClear, Sides
<1>4. CASE Run \/ Return
  BY <1>1, <1>2, <1>4, StructFrame DEF Run, Return
<1>5. ASSUME NEW s \in Sides,
             \/ GetSingle(s)
             \/ \E I \in 0..(MaxPorts - 1) : GetStatic(s, I)
             \/ \E k \in CallerIndices : GetRuntime(s, k)
      PROVE  StructInv'
  BY <1>1, <1>5, StructFrame DEF GetSingle, GetStatic, GetRuntime
<1>6. ASSUME NEW field \in {"value", "ts"}, NEW x,
             field = "value" => x \in Values \cup {Zero},
             field = "ts" => x \in 0..MaxTime,
             WriteOut(field, x)
      PROVE  StructInv'
  <2> DEFINE j == cursor.slot
             sg == [out.elem[j].sig EXCEPT ![field] = x]
  <2>1. out' = [out EXCEPT !.elem[j].sig = sg]
        /\ written' = written \cup {j}
        /\ UNCHANGED <<decl, constructed, in>>
    BY <1>6 DEF WriteOut
  <2>2. constructed /\ j \in DOMAIN out.elem
    BY <1>2, <1>6 DEF WriteOut
  <2>3. IsStorage(out) /\ sg \in Signal
    <3>1. IsStorage(out)
      BY DEF StructInv, TypeOK
    <3>2. out.elem[j] \in Port
      BY <2>2, <3>1 DEF IsStorage
    <3>. QED  BY <1>6, <3>1, <3>2, WriteSignal DEF Port
  <2>4. /\ out.type = decl.Tout /\ DOMAIN out.elem = 0..(decl.M - 1)
        /\ \A i \in DOMAIN out.elem : UnitEqual(out.elem[i].unit, decl.Uout[i])
        /\ \A i \in DOMAIN out.elem :
              out.elem[i].owner = Self /\ out.elem[i].ownerSets = 1
    BY <2>2 DEF StructInv, SideMatchesDecl, StorageOf, TypeOf, CountOf,
       UnitsOf, OwnedExactlyOnce, Sides
  <2>5. /\ out'.type = decl.Tout /\ DOMAIN out'.elem = 0..(decl.M - 1)
        /\ \A i \in DOMAIN out'.elem : UnitEqual(out'.elem[i].unit, decl.Uout[i])
        /\ \A i \in DOMAIN out'.elem :
              out'.elem[i].owner = Self /\ out'.elem[i].ownerSets = 1
    <3>1. /\ out'.type = out.type /\ DOMAIN out'.elem = DOMAIN out.elem
          /\ \A i \in DOMAIN out'.elem :
                /\ out'.elem[i].unit = out.elem[i].unit
                /\ out'.elem[i].owner = out.elem[i].owner
                /\ out'.elem[i].ownerSets = out.elem[i].ownerSets
      BY <2>1, <2>2, <2>3, SetSignal
    <3>2. \A i \in DOMAIN out'.elem : UnitEqual(out'.elem[i].unit, decl.Uout[i])
      <4> SUFFICES ASSUME NEW i \in DOMAIN out'.elem
                   PROVE  UnitEqual(out'.elem[i].unit, decl.Uout[i])
        OBVIOUS
      <4>1. i \in DOMAIN out.elem /\ out'.elem[i].unit = out.elem[i].unit
        BY <3>1
      <4>2. UnitEqual(out.elem[i].unit, decl.Uout[i])
        BY <2>4, <4>1
      <4>. QED  BY <4>1, <4>2
    <3>. QED  BY <2>4, <3>1, <3>2
  <2>6. UnwrittenOutputsAreClear'
    <3>1. \A i \in DOMAIN out'.elem :
            i # j => out'.elem[i].sig = out.elem[i].sig
      BY <2>1, <2>2, <2>3, SetSignal
    <3>2. DOMAIN out'.elem = DOMAIN out.elem
      BY <2>1, <2>2, <2>3, SetSignal
    <3>. QED  BY <2>1, <2>2, <3>1, <3>2
              DEF StructInv, UnwrittenOutputsAreClear
  <2>. QED
    BY <1>1, <2>1, <2>2, <2>5, <2>6
    DEF StructInv, SideMatchesDecl, StorageOf, TypeOf, CountOf, UnitsOf,
        OwnedExactlyOnce, Sides
<1>7. CASE Feed
  <2>1. PICK j \in DOMAIN in.elem, sg \in Signal :
          in' = [in EXCEPT !.elem[j].sig = sg]
    BY <1>7 DEF Feed
  <2>2. constructed /\ UNCHANGED <<decl, constructed, out, written>>
    BY <1>7 DEF Feed
  <2>3. /\ IsStorage(in)
        /\ in.type = decl.Tin /\ DOMAIN in.elem = 0..(decl.N - 1)
        /\ \A i \in DOMAIN in.elem : UnitEqual(in.elem[i].unit, decl.Uin[i])
        /\ \A i \in DOMAIN in.elem :
              in.elem[i].owner = Self /\ in.elem[i].ownerSets = 1
    BY <2>2 DEF StructInv, TypeOK, SideMatchesDecl, StorageOf, TypeOf, CountOf,
       UnitsOf, OwnedExactlyOnce, Sides
  <2>4. /\ in'.type = decl.Tin /\ DOMAIN in'.elem = 0..(decl.N - 1)
        /\ \A i \in DOMAIN in'.elem : UnitEqual(in'.elem[i].unit, decl.Uin[i])
        /\ \A i \in DOMAIN in'.elem :
              in'.elem[i].owner = Self /\ in'.elem[i].ownerSets = 1
    <3>1. /\ in'.type = in.type /\ DOMAIN in'.elem = DOMAIN in.elem
          /\ \A i \in DOMAIN in'.elem :
                /\ in'.elem[i].unit = in.elem[i].unit
                /\ in'.elem[i].owner = in.elem[i].owner
                /\ in'.elem[i].ownerSets = in.elem[i].ownerSets
      BY <2>1, <2>3, SetSignal
    <3>2. \A i \in DOMAIN in'.elem : UnitEqual(in'.elem[i].unit, decl.Uin[i])
      <4> SUFFICES ASSUME NEW i \in DOMAIN in'.elem
                   PROVE  UnitEqual(in'.elem[i].unit, decl.Uin[i])
        OBVIOUS
      <4>1. i \in DOMAIN in.elem /\ in'.elem[i].unit = in.elem[i].unit
        BY <3>1
      <4>2. UnitEqual(in.elem[i].unit, decl.Uin[i])
        BY <2>3, <4>1
      <4>. QED  BY <4>1, <4>2
    <3>. QED  BY <2>3, <3>1, <3>2
  <2>. QED
    BY <1>1, <2>2, <2>4
    DEF StructInv, SideMatchesDecl, StorageOf, TypeOf, CountOf, UnitsOf,
        OwnedExactlyOnce, UnwrittenOutputsAreClear, Sides
<1>8. CASE UNCHANGED vars
  BY <1>8 DEF vars, StructInv, SideMatchesDecl, StorageOf, TypeOf, CountOf,
     UnitsOf, OwnedExactlyOnce, UnwrittenOutputsAreClear, TypeOK
<1>. QED
  BY <1>3, <1>4, <1>5, <1>6, <1>7, <1>8
  DEF Next, Sides, getInSingle, getOutSingle, getInStatic, getOutStatic,
      getInRuntime, getOutRuntime, SetValue, SetTimestamp

(* Before the constructor the structural invariant holds. *)
LEMMA StructInvInit == Init => StructInv
BY TypeOKInit DEF Init, StructInv, OwnedExactlyOnce, UnwrittenOutputsAreClear

(* The structural invariant holds in every reachable state. *)
THEOREM StructInvariant == Spec => []StructInv
BY StructInvInit, StructInvStep, PTL DEF Spec

(* Blockio's constructor calls setOwner(this) exactly once on every input *)
(* and output port, and nothing after it calls setOwner again: in every   *)
(* reachable state of a constructed block each port is owned by it, set  *)
(* once.                                                                   *)
THEOREM OwnershipSafe == Spec => []OwnedExactlyOnce
<1>1. StructInv => OwnedExactlyOnce
  BY DEF StructInv
<1>. QED  BY StructInvariant, <1>1, PTL

(* initalizeInputsAndOutputs() clears every output and only the block's  *)
(* own algorithm writes outputs: an output slot the algorithm has not     *)
(* written since construction holds the cleared signal, whatever the      *)
(* inputs were fed.                                                        *)
THEOREM OutputsClearSafe == Spec => []UnwrittenOutputsAreClear
<1>1. StructInv => UnwrittenOutputsAreClear
  BY DEF StructInv
<1>. QED  BY StructInvariant, <1>1, PTL

-----------------------------------------------------------------------------
(* The accessors.  The C++ parameter of getIn(uint8_t) / getOut(uint8_t)  *)
(* is one byte wide; AccessReturnsDeclaredPort holds when callers pass     *)
(* indices that fit in it (MC_Blockio_wrap.cfg shows that it fails for     *)
(* wider ones).                                                            *)
NarrowIndices == CallerIndices \subseteq 0..(IndexWidth - 1)

(* A reference to slot j of side s, with j below the side's port count,   *)
(* designates the declared port.                                           *)
LEMMA GrantedSlot ==
  ASSUME StructInv, constructed, NEW s \in Sides,
         NEW j \in 0..(CountOf(s) - 1), NEW v,
         cursor' = [side |-> s, slot |-> j, req |-> j, via |-> v],
         UNCHANGED <<decl, in, out>>
  PROVE  AccessReturnsDeclaredPort'
<1>1. SideMatchesDecl(s)
  BY DEF StructInv
<1>2. DOMAIN UnitsOf(s) = 0..(CountOf(s) - 1)
  <2>1. decl \in Decls
    BY DEF StructInv, TypeOK
  <2>. QED  BY <2>1, DeclFacts DEF UnitsOf, CountOf, Sides
<1>3. /\ StorageOf(s)' = StorageOf(s) /\ TypeOf(s)' = TypeOf(s)
      /\ UnitsOf(s)' = UnitsOf(s) /\ CountOf(s)' = CountOf(s)
  BY DEF StorageOf, TypeOf, UnitsOf, CountOf
<1>. QED  BY <1>1, <1>2, <1>3 DEF AccessReturnsDeclaredPort, SideMatchesDecl

(* A step that keeps the reference, the declaration, and every storage's  *)
(* type, indices and units keeps the reference designating the declared   *)
(* port.                                                                   *)
LEMMA AccessFrame ==
  ASSUME AccessReturnsDeclaredPort, cursor' = cursor, decl' = decl,
         \A s \in Sides :
            /\ StorageOf(s)'.type = StorageOf(s).type
            /\ DOMAIN StorageOf(s)'.elem = DOMAIN StorageOf(s).elem
            /\ \A i \in DOMAIN StorageOf(s).elem :
                  StorageOf(s)'.elem[i].unit = StorageOf(s).elem[i].unit,
         cursor = NoRef \/ cursor.side \in Sides
  PROVE  AccessReturnsDeclaredPort'
<1>1. CASE cursor = NoRef
  BY <1>1 DEF AccessReturnsDeclaredPort
<1>2. CASE cursor # NoRef
  <2> DEFINE s == cursor.side
  <2>1. s \in Sides
    BY <1>2
  <2>2. TypeOf(s)' = TypeOf(s) /\ UnitsOf(s)' = UnitsOf(s)
    BY DEF TypeOf, UnitsOf
  <2>. QED  BY <1>2, <2>1, <2>2 DEF AccessReturnsDeclaredPort
<1>. QED  BY <1>1, <1>2

(* With narrow indices, one step keeps the full invariant. *)
LEMMA IInvStep ==
  ASSUME NarrowIndices
  PROVE  IInv /\ [Next]_vars => IInv'
<1> SUFFICES ASSUME IInv, [Next]_vars PROVE IInv'
  OBVIOUS
<1>1. StructInv'
  BY StructInvStep DEF IInv
<1>2. StructInv /\ AccessReturnsDeclaredPort
  BY DEF IInv
<1>3. cursor = NoRef \/ cursor.side \in Sides
  BY <1>2 DEF StructInv, TypeOK
<1> USE <1>1, <1>2
<1>4. CASE Construct
  BY <1>4 DEF Construct, StructInv, IInv, AccessReturnsDeclaredPort
<1>5. CASE Run
  <2>1. \A s \in Sides : StorageOf(s)' = StorageOf(s)
    BY <1>5 DEF Run, StorageOf
  <2>. QED  BY <1>3, <1>5, <2>1, AccessFrame DEF Run, IInv
<1>6. CASE Return
  BY <1>6 DEF Return, IInv, AccessReturnsDeclaredPort
<1>7. ASSUME NEW s \in Sides, GetSingle(s) PROVE IInv'
  <2>1. 0 \in 0..(CountOf(s) - 1)
    BY <1>7 DEF GetSingle
  <2>. QED  BY <1>7, <2>1, GrantedSlot DEF GetSingle, IInv
<1>8. ASSUME NEW s \in Sides, NEW I \in 0..(MaxPorts - 1), GetStatic(s, I)
      PROVE  IInv'
  <2>1. I \in 0..(CountOf(s) - 1)
    BY <1>8 DEF GetStatic, StructInv, SideMatchesDecl
  <2>. QED  BY <1>8, <2>1, GrantedSlot DEF GetStatic, IInv
<1>9. ASSUME NEW s \in Sides, NEW k \in CallerIndices, GetRuntime(s, k)
      PROVE  IInv'
  <2>1. CASE ToUint8(k) >= CountOf(s)
    BY <1>9, <2>1 DEF GetRuntime, IInv, AccessReturnsDeclaredPort
  <2>2. CASE ~(ToUint8(k) >= CountOf(s))
      <3>1. k \in 0..(IndexWidth - 1)
        BY NarrowIndices DEF NarrowIndices
      <3>2. ToUint8(k) = k
        BY <3>1 DEF ToUint8, IndexWidth
      <3>3. CountOf(s) \in Int
        <4>1. decl \in Decls
          BY DEF StructInv, TypeOK
        <4>. QED  BY <4>1, DeclFacts DEF CountOf, Sides
      <3>4. k \in 0..(CountOf(s) - 1)
        BY <2>2, <3>1, <3>2, <3>3
      <3>5. cursor' = [side |-> s, slot |-> k, req |-> k, via |-> "runtime"]
            /\ UNCHANGED <<decl, in, out>> /\ constructed
        BY <1>9, <2>2, <3>2 DEF GetRuntime
      <3>. QED  BY <3>4, <3>5, GrantedSlot DEF IInv
  <2>. QED  BY <2>1, <2>2
<1>10. ASSUME NEW field \in {"value", "ts"}, NEW x,
              field = "value" => x \in Values \cup {Zero},
              field = "ts" => x \in 0..MaxTime,
              WriteOut(field, x)
       PROVE  IInv'
  <2> DEFINE j == cursor.slot
             sg == [out.elem[j].sig EXCEPT ![field] = x]
  <2>1. out' = [out EXCEPT !.elem[j].sig = sg] /\ UNCHANGED <<decl, in, cursor>>
    BY <1>10 DEF WriteOut
  <2>2. IsStorage(out) /\ j \in DOMAIN out.elem
    BY <1>10 DEF WriteOut, StructInv, TypeOK
  <2>3. out.elem[j] \in Port
    BY <2>2 DEF IsStorage
  <2>4. sg \in Signal
    BY <1>10, <2>3, WriteSignal DEF Port
  <2>5. /\ out'.type = out.type /\ DOMAIN out'.elem = DOMAIN out.elem
        /\ \A i \in DOMAIN out'.elem : out'.elem[i].unit = out.elem[i].unit
    BY <2>1, <2>2, <2>4, SetSignal
  <2>6. \A s \in Sides :
          /\ StorageOf(s)'.type = StorageOf(s).type
          /\ DOMAIN StorageOf(s)'.elem = DOMAIN StorageOf(s).elem
          /\ \A i \in DOMAIN StorageOf(s).elem :
                StorageOf(s)'.elem[i].unit = StorageOf(s).elem[i].unit
    BY <2>1, <2>5 DEF StorageOf, Sides
  <2>. QED  BY <1>3, <2>1, <2>6, AccessFrame DEF IInv
<1>11. CASE Feed
  <2>1. PICK j \in DOMAIN in.elem, sg \in Signal :
          in' = [in EXCEPT !.elem[j].sig = sg]
    BY <1>11 DEF Feed
  <2>2. UNCHANGED <<decl, out, cursor>> /\ IsStorage(in)
    BY <1>11 DEF Feed, StructInv, TypeOK
  <2>3. /\ in'.type = in.type /\ DOMAIN in'.elem = DOMAIN in.elem
        /\ \A i \in DOMAIN in'.elem : in'.elem[i].unit = in.elem[i].unit
    BY <2>1, <2>2, SetSignal
  <2>4. \A s \in Sides :
          /\ StorageOf(s)'.type = StorageOf(s).type
          /\ DOMAIN StorageOf(s)'.elem = DOMAIN StorageOf(s).elem
          /\ \A i \in DOMAIN StorageOf(s).elem :
                StorageOf(s)'.elem[i].unit = StorageOf(s).elem[i].unit
    BY <2>2, <2>3 DEF StorageOf, Sides
  <2>. QED  BY <1>3, <2>2, <2>4, AccessFrame DEF IInv
<1>12. CASE UNCHANGED vars
  BY <1>12 DEF vars, IInv, AccessReturnsDeclaredPort, StorageOf, TypeOf,
     UnitsOf
<1>. QED
  BY <1>4, <1>5, <1>6, <1>7, <1>8, <1>9, <1>10, <1>11, <1>12
  DEF Next, Sides, getInSingle, getOutSingle, getInStatic, getOutStatic,
      getInRuntime, getOutRuntime, SetValue, SetTimestamp

(* Every reference that getIn / getOut hand out (the single port, a port *)
(* by template index, or by runtime index) designates the port asked for, *)
(* with the declared value type and unit, provided the callers' indices   *)
(* fit in the uint8_t parameter of the runtime accessors.                  *)
THEOREM AccessSafe ==
  ASSUME NarrowIndices
  PROVE  Spec => []AccessReturnsDeclaredPort
<1>1. Init => IInv
  BY StructInvInit DEF Init, IInv, AccessReturnsDeclaredPort
<1>2. IInv /\ [Next]_vars => IInv'
  BY IInvStep
<1>3. IInv => AccessReturnsDeclaredPort
  BY DEF IInv
<1>. QED  BY <1>1, <1>2, <1>3, PTL DEF Spec

-----------------------------------------------------------------------------
(* Finding 1, exactly: the createOutputs of the earlier revision builds  *)
(* the outputs the current one builds if and only if the block's output  *)
(* value type is its input type, its outputs are dimensionless exactly  *)
(* when its inputs are, and, when they are, it has as many outputs as    *)
(* inputs.  Every other instantiation with several outputs (the only     *)
(* ones that reach createOutputs) was built wrong by that revision.     *)
THEOREM Rev2WrongExactly ==
  ASSUME NEW d \in Decls, NEW g \in [0..(MaxPorts - 1) -> Signal]
  PROVE  createOutputsRev2(d, g) = createOutputs(d, g) <=>
           /\ d.Tin = d.Tout
           /\ allDimensionLess(d.Uin) = allDimensionLess(d.Uout)
           /\ allDimensionLess(d.Uin) => d.N = d.M
<1> DEFINE r == createOutputsRev2(d, g)
           c == createOutputs(d, g)
           A == allDimensionLess(d.Uin)
           B == allDimensionLess(d.Uout)
<1>1. d.N \in Nat /\ d.M \in Nat
  BY DeclFacts
<1>2. /\ r.type = d.Tin /\ c.type = d.Tout
      /\ r.kind = (IF A THEN "array" ELSE "tuple")
      /\ c.kind = (IF B THEN "array" ELSE "tuple")
  BY DEF createOutputsRev2, createOutputs
<1>3. ASSUME r = c PROVE d.Tin = d.Tout /\ A = B /\ (A => d.N = d.M)
  <2>1. d.Tin = d.Tout /\ A = B
    BY <1>2, <1>3 DEF allDimensionLess
  <2>2. ASSUME A PROVE d.N = d.M
    <3>1. DOMAIN r.elem = 0..(d.N - 1) /\ DOMAIN c.elem = 0..(d.M - 1)
      BY <2>1, <2>2 DEF createOutputsRev2, createOutputs
    <3>. QED  BY <1>1, <1>3, <3>1
  <2>. QED  BY <2>1, <2>2
<1>4. ASSUME d.Tin = d.Tout, A = B, A => d.N = d.M PROVE r = c
  <2>1. CASE A
    <3>1. B /\ d.N = d.M
      BY <1>4, <2>1
    <3>2. /\ r = [kind |-> "array", type |-> d.Tin,
                 elem |-> [i \in 0..(d.N - 1) |-> NewPort(Dimensionless, g[i])]]
          /\ c = [kind |-> "array", type |-> d.Tout,
                 elem |-> [i \in 0..(d.M - 1) |-> NewPort(Dimensionless, g[i])]]
      BY <2>1, <3>1 DEF createOutputsRev2, createOutputs
    <3>. QED  BY <1>4, <3>1, <3>2
  <2>2. CASE ~A
    BY <1>4, <2>2 DEF createOutputsRev2, createOutputs
  <2>. QED  BY <2>1, <2>2
<1>. QED  BY <1>3, <1>4
=============================================================================
