----------------------- MODULE BlockioRefinementProofs -----------------------
(***************************************************************************)
(* Proof that Blockio implements the port contract BlockPorts under the   *)
(* refinement mapping of BlockioRefinement, for every bound and every set *)
(* of units, types and values, when callers' indices fit in the uint8_t   *)
(* parameter of the runtime accessors.  The invariant the steps rest on  *)
(* is IInv of BlockioProofs.                                               *)
(***************************************************************************)
EXTENDS BlockioRefinement, BlockioProofs

USE MaxPortsAssumption, MaxTimeAssumption, CallerIndicesAssumption,
    DeclUnitsAssumption, ZeroAssumption, OwnerAssumption

(* The abstract declaration of a side is the block's. *)
LEMMA SideDecl ==
  \A s \in Sides : /\ A!Count(decl, s) = CountOf(s)
                   /\ A!TypeOfSide(decl, s) = TypeOf(s)
                   /\ A!UnitsOfSide(decl, s) = UnitsOf(s)
BY DEF A!Count, A!TypeOfSide, A!UnitsOfSide, CountOf, TypeOf, UnitsOf

(* The contract compares units with the same operator== of SIUnit. *)
LEMMA SameUnitEqual ==
  \A u, v : A!UnitEqual(u, v) <=> UnitEqual(u, v)
BY DEF A!UnitEqual, UnitEqual, A!Key, Key, A!Fields, Fields

LEMMA SameNames == A!Sides = Sides /\ A!NoRef = NoRef
BY DEF A!Sides, Sides, A!NoRef, NoRef

(* The abstract vector of a storage. *)
AbsVector(st) == [i \in DOMAIN st.elem |-> AbsPort(st, i)]

LEMMA AbsPortsSides ==
  AbsPorts = [s \in Sides |-> AbsVector(StorageOf(s))]
BY DEF AbsPorts, AbsVector

(* Replacing the signal of port j of a storage replaces the signal of    *)
(* abstract port j and nothing else.                                       *)
LEMMA AbsSetSignal ==
  ASSUME NEW st, IsStorage(st), NEW j \in DOMAIN st.elem, NEW sg \in Signal
  PROVE  AbsVector([st EXCEPT !.elem[j].sig = sg])
           = [AbsVector(st) EXCEPT ![j].sig = sg]
<1> DEFINE o == [st EXCEPT !.elem[j].sig = sg]
<1>1. /\ o.type = st.type
      /\ DOMAIN o.elem = DOMAIN st.elem
      /\ o.elem[j].sig = sg
      /\ \A i \in DOMAIN o.elem :
            /\ o.elem[i].unit = st.elem[i].unit
            /\ i # j => o.elem[i].sig = st.elem[i].sig
  BY SetSignal
<1>2. \A i \in DOMAIN st.elem :
         AbsPort(o, i) = IF i = j THEN [AbsPort(st, i) EXCEPT !.sig = sg]
                                  ELSE AbsPort(st, i)
  BY <1>1 DEF AbsPort
<1>. QED  BY <1>1, <1>2 DEF AbsVector

(* A step that keeps both storages keeps the abstract ports. *)
LEMMA PortsFrame ==
  ASSUME in' = in, out' = out
  PROVE  AbsPorts' = AbsPorts
BY DEF AbsPorts, StorageOf, AbsPort

(* A constructed side is the vector the contract declares. *)
LEMMA ConstructedVector ==
  ASSUME NEW s \in Sides, NEW st, IsStorage(st),
         st.type = TypeOf(s),
         DOMAIN st.elem = 0..(CountOf(s) - 1),
         \A i \in DOMAIN st.elem : UnitEqual(st.elem[i].unit, UnitsOf(s)[i])
  PROVE  A!IsDeclaredVector(AbsVector(st), s)
<1>1. \A i \in DOMAIN st.elem : st.elem[i].sig \in Signal
  BY DEF IsStorage, Port
<1>. QED  BY <1>1, SideDecl, SameUnitEqual DEF A!IsDeclaredVector, AbsVector, AbsPort

-----------------------------------------------------------------------------
LEMMA RefInit == Init => A!Init
<1> SUFFICES ASSUME Init PROVE A!Init
  OBVIOUS
<1>1. AbsPorts = [s \in Sides |-> << >>]
  <2>1. \A s \in Sides : DOMAIN StorageOf(s).elem = {}
    BY DEF Init, StorageOf, Sides
  <2>2. \A s \in Sides : AbsVector(StorageOf(s)) = << >>
    BY <2>1 DEF AbsVector
  <2>. QED  BY <2>2, AbsPortsSides
<1>2. AbsRef = A!NoRef /\ AbsFault = "none"
  BY SameNames DEF Init, AbsRef, AbsFault
<1>. QED  BY <1>1, <1>2, SameNames DEF Init, A!Init

(* The abstract vector of each side, in the next state. *)
LEMMA AbsPortsNext ==
  /\ DOMAIN AbsPorts' = Sides
  /\ AbsPorts'["in"] = AbsVector(in')
  /\ AbsPorts'["out"] = AbsVector(out')
BY DEF AbsPorts, AbsVector, StorageOf, Sides

(* Replacing the signal of port j on side s replaces the signal of the    *)
(* abstract port j of side s.                                             *)
LEMMA AbsPortsWrite ==
  ASSUME NEW s \in Sides, NEW j \in DOMAIN StorageOf(s).elem, NEW sg \in Signal,
         IsStorage(StorageOf(s)),
         StorageOf(s)' = [StorageOf(s) EXCEPT !.elem[j].sig = sg],
         \A r \in Sides \ {s} : StorageOf(r)' = StorageOf(r)
  PROVE  AbsPorts' = [AbsPorts EXCEPT ![s][j].sig = sg]
<1>1. AbsVector(StorageOf(s)') = [AbsVector(StorageOf(s)) EXCEPT ![j].sig = sg]
  BY AbsSetSignal
<1>2. \A r \in Sides : AbsPorts'[r] = AbsVector(StorageOf(r)')
  BY AbsPortsNext DEF StorageOf, Sides
<1>3. \A r \in Sides : AbsPorts[r] = AbsVector(StorageOf(r))
  BY AbsPortsSides
<1>4. DOMAIN AbsPorts = Sides /\ DOMAIN AbsPorts' = Sides
  BY AbsPortsNext, AbsPortsSides
<1>5. \A r \in Sides :
         AbsPorts'[r] = IF r = s THEN [AbsPorts[s] EXCEPT ![j].sig = sg]
                                 ELSE AbsPorts[r]
  BY <1>1, <1>2, <1>3
<1>6. AbsPorts = [r \in Sides |-> AbsPorts[r]]
  BY AbsPortsSides
<1>7. AbsPorts' = [r \in Sides |-> AbsPorts'[r]]
  BY AbsPortsNext DEF AbsPorts
<1>. QED  BY <1>5, <1>6, <1>7

(* With narrow indices, every step of the block is a step of the port     *)
(* contract or leaves the contract's state unchanged.                     *)
LEMMA RefStep ==
  ASSUME NarrowIndices
  PROVE  IInv /\ [Next]_vars => [A!Next]_A!avars
<1> SUFFICES ASSUME IInv, [Next]_vars PROVE [A!Next]_A!avars
  OBVIOUS
<1>0. /\ decl \in Decls /\ IsStorage(in) /\ IsStorage(out)
      /\ constructed => \A s \in Sides : SideMatchesDecl(s)
      /\ AccessReturnsDeclaredPort
  BY DEF IInv, StructInv, TypeOK
<1>1. CASE Construct
  <2>1. PICK gi, go \in [0..(MaxPorts - 1) -> Signal] :
          /\ in' = initalizeInputs(decl, generateNInputs(decl, gi))
          /\ out' = initalizeOutputs(decl, generateMOutputs(decl, go))
    BY <1>1 DEF Construct
  <2>2. A!IsDeclaredVector(AbsVector(in'), "in")
    <3>1. /\ IsStorage(in') /\ in'.type = TypeOf("in")
          /\ DOMAIN in'.elem = 0..(CountOf("in") - 1)
          /\ \A i \in DOMAIN in'.elem : UnitEqual(in'.elem[i].unit, UnitsOf("in")[i])
      BY <1>0, <2>1, ConstructedInputs DEF TypeOf, CountOf, UnitsOf
    <3>. QED  BY <3>1, ConstructedVector DEF Sides
  <2>3. /\ A!IsDeclaredVector(AbsVector(out'), "out")
        /\ \A i \in DOMAIN AbsVector(out') : AbsVector(out')[i].sig = ZeroSignal
    <3>1. /\ IsStorage(out') /\ out'.type = TypeOf("out")
          /\ DOMAIN out'.elem = 0..(CountOf("out") - 1)
          /\ \A i \in DOMAIN out'.elem :
                /\ UnitEqual(out'.elem[i].unit, UnitsOf("out")[i])
                /\ out'.elem[i].sig = ZeroSignal
      BY <1>0, <2>1, ConstructedOutputs DEF TypeOf, CountOf, UnitsOf
    <3>. QED  BY <3>1, ConstructedVector DEF Sides, AbsVector, AbsPort
  <2>4. UNCHANGED <<decl, running>> /\ AbsRef' = AbsRef /\ AbsFault' = AbsFault
    BY <1>1 DEF Construct, AbsRef, AbsFault
  <2>5. A!Construct
    BY <1>1, <2>2, <2>3, <2>4, AbsPortsNext, SameNames DEF Construct, A!Construct, Sides
  <2>. QED  BY <2>5 DEF A!Next
<1>2. CASE Run
  <2>1. A!Run
    BY <1>2, PortsFrame DEF Run, A!Run, AbsRef, AbsFault
  <2>. QED  BY <2>1 DEF A!Next
<1>3. CASE Return
  <2>1. A!Return
    BY <1>3, PortsFrame, SameNames DEF Return, A!Return, AbsRef, AbsFault
  <2>. QED  BY <2>1 DEF A!Next
<1>4. ASSUME NEW s \in Sides, NEW k \in Nat,
             k \in 0..(CountOf(s) - 1), constructed,
             cursor' = [side |-> s, slot |-> k, req |-> k, via |-> cursor'.via],
             UNCHANGED <<decl, constructed, in, out, running, fault>>,
             k \in CallerIndices \cup 0..MaxPorts
      PROVE  [A!Next]_A!avars
  <2>a. cursor' # NoRef
    BY <1>4 DEF NoRef
  <2>b. AbsRef' = [side |-> s, slot |-> k]
    BY <1>4, <2>a DEF AbsRef
  <2>c. AbsPorts' = AbsPorts /\ AbsFault' = AbsFault
    BY <1>4, PortsFrame DEF AbsFault
  <2>d. k < A!Count(decl, s)
    <3>1. CountOf(s) \in Int
      BY <1>0, DeclFacts DEF CountOf, Sides
    <3>. QED  BY <1>4, <3>1, SideDecl
  <2>1. A!Access(s, k)
    BY <1>4, <2>b, <2>c, <2>d DEF A!Access
  <2>2. \E r \in A!Sides, i \in CallerIndices \cup 0..MaxPorts : A!Access(r, i)
    BY <1>4, <2>1, SameNames
  <2>. QED  BY <2>2 DEF A!Next
<1>5. ASSUME NEW s \in Sides, GetSingle(s) PROVE [A!Next]_A!avars
  BY <1>5, <1>4 DEF GetSingle
<1>6. ASSUME NEW s \in Sides, NEW I \in 0..(MaxPorts - 1), GetStatic(s, I)
      PROVE  [A!Next]_A!avars
  <2>1. I \in 0..(CountOf(s) - 1)
    BY <1>0, <1>6 DEF GetStatic, SideMatchesDecl
  <2>. QED  BY <1>6, <2>1, <1>4 DEF GetStatic
<1>7. ASSUME NEW s \in Sides, NEW k \in CallerIndices, GetRuntime(s, k)
      PROVE  [A!Next]_A!avars
  <2>1. ToUint8(k) = k
    <3>1. k \in 0..(IndexWidth - 1)
      BY NarrowIndices DEF NarrowIndices
    <3>. QED  BY <3>1 DEF ToUint8, IndexWidth
  <2>2. CountOf(s) \in Int
    BY <1>0, DeclFacts DEF CountOf, Sides
  <2>3. CASE k >= CountOf(s)
    <3>1. fault' = [block |-> Self, side |-> s] /\ cursor' = NoRef /\ running' = FALSE
          /\ UNCHANGED <<decl, constructed, in, out>>
      BY <1>7, <2>1, <2>3 DEF GetRuntime
    <3>2. AbsFault' = s
      BY <3>1 DEF AbsFault, NoFault
    <3>3. A!Reject(s, k)
      BY <1>7, <2>3, <3>1, <3>2, PortsFrame, SideDecl, SameNames
      DEF GetRuntime, A!Reject, AbsRef
    <3>4. \E r \in A!Sides, i \in CallerIndices \cup 0..MaxPorts : A!Reject(r, i)
      BY <3>3, SameNames
    <3>. QED  BY <3>4 DEF A!Next
  <2>4. CASE ~(k >= CountOf(s))
    <3>1. k \in 0..(CountOf(s) - 1)
      BY <2>2, <2>4, CallerIndicesAssumption
    <3>2. cursor' = [side |-> s, slot |-> k, req |-> k, via |-> "runtime"]
          /\ UNCHANGED <<decl, constructed, in, out, running, fault>>
      BY <1>7, <2>1, <2>4 DEF GetRuntime
    <3>. QED  BY <3>1, <3>2, <1>4, <1>7, CallerIndicesAssumption DEF GetRuntime
  <2>. QED  BY <2>3, <2>4
<1>8. ASSUME NEW field \in {"value", "ts"}, NEW x,
             field = "value" => x \in Values \cup {Zero},
             field = "ts" => x \in 0..MaxTime,
             WriteOut(field, x)
      PROVE  [A!Next]_A!avars
  <2> DEFINE j == cursor.slot
             sg == [out.elem[j].sig EXCEPT ![field] = x]
  <2>1. out' = [out EXCEPT !.elem[j].sig = sg]
        /\ UNCHANGED <<decl, constructed, in, running, cursor, fault>>
    BY <1>8 DEF WriteOut
  <2>2. j \in DOMAIN out.elem /\ cursor.side = "out" /\ running
    BY <1>8 DEF WriteOut
  <2>3. sg \in Signal
    BY <1>0, <1>8, <2>2, WriteSignal DEF IsStorage, Port
  <2>4. cursor # NoRef /\ cursor.req = j
    BY <1>0, <2>2 DEF AccessReturnsDeclaredPort, NoRef
  <2>5. AbsRef = [side |-> "out", slot |-> j] /\ AbsRef' = AbsRef
    BY <2>1, <2>2, <2>4 DEF AbsRef
  <2>6. AbsPorts' = [AbsPorts EXCEPT !["out"][j].sig = sg]
    BY <1>0, <2>1, <2>2, <2>3, AbsPortsWrite DEF StorageOf, Sides
  <2>7. j \in DOMAIN AbsPorts["out"]
    BY <2>2, AbsPortsSides DEF AbsVector, StorageOf, Sides
  <2>8. A!Write
    BY <2>1, <2>2, <2>3, <2>5, <2>6, <2>7 DEF A!Write, AbsFault
  <2>. QED  BY <2>8 DEF A!Next
<1>9. CASE Feed
  <2>1. PICK j \in DOMAIN in.elem, sg \in Signal :
          in' = [in EXCEPT !.elem[j].sig = sg]
    BY <1>9 DEF Feed
  <2>2. UNCHANGED <<decl, constructed, out, running, cursor, fault>>
        /\ constructed /\ ~running
    BY <1>9 DEF Feed
  <2>3. AbsPorts' = [AbsPorts EXCEPT !["in"][j].sig = sg]
    BY <1>0, <2>1, <2>2, AbsPortsWrite DEF StorageOf, Sides
  <2>4. j \in DOMAIN AbsPorts["in"]
    BY AbsPortsSides DEF AbsVector, StorageOf, Sides
  <2>5. A!Feed
    BY <2>2, <2>3, <2>4 DEF A!Feed, AbsRef, AbsFault
  <2>. QED  BY <2>5 DEF A!Next
<1>10. CASE UNCHANGED vars
  BY <1>10, PortsFrame DEF vars, A!avars, AbsRef, AbsFault
<1>. QED
  BY <1>1, <1>2, <1>3, <1>5, <1>6, <1>7, <1>8, <1>9, <1>10
  DEF Next, Sides, getInSingle, getOutSingle, getInStatic, getOutStatic,
      getInRuntime, getOutRuntime, SetValue, SetTimestamp

-----------------------------------------------------------------------------
(* Blockio implements the port contract BlockPorts: whatever the          *)
(* instantiation, construction yields the declared port vectors with the  *)
(* outputs cleared, every accessor designates the port of the index asked *)
(* for or raises IndexOutOfBoundsFault, and a fault changes no port, as   *)
(* long as callers' indices fit in the uint8_t parameter of getIn/getOut. *)
THEOREM Refinement ==
  ASSUME NarrowIndices
  PROVE  Spec => Refines
<1>1. Init => IInv
  BY StructInvInit DEF Init, IInv, AccessReturnsDeclaredPort
<1>2. IInv /\ [Next]_vars => IInv'
  BY IInvStep
<1>3. Init => A!Init
  BY RefInit
<1>4. IInv /\ [Next]_vars => [A!Next]_A!avars
  BY RefStep
<1>. QED  BY <1>1, <1>2, <1>3, <1>4, PTL DEF Spec, Refines, A!Spec
=============================================================================
