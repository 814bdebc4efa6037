---------------------------- MODULE SIUnitProofs ----------------------------
(***************************************************************************)
(* Proofs about operator== of SIUnit (part_000 line 36) for every unit    *)
(* whatever its exponents, and about the unit registry of the HAL that    *)
(* the blockio run checks as NamedUnitsDistinct.                          *)
(***************************************************************************)
EXTENDS SIUnit, TLAPS

(* operator== compares every member, so it is the identity of values. *)
LEMMA UnitEqualIsIdentity ==
  ASSUME NEW u \in UnitSet(Int), NEW v \in UnitSet(Int)
  PROVE  UnitEqual(u, v) <=> u = v
<1>1. u = v => UnitEqual(u, v)
  BY DEF UnitEqual
<1>2. ASSUME UnitEqual(u, v) PROVE u = v
  <2>1. /\ u.length = v.length /\ u.mass = v.mass /\ u.time = v.time
        /\ u.electric_current = v.electric_current
        /\ u.thermodynamic_temperature = v.thermodynamic_temperature
        /\ u.amount_of_substance = v.amount_of_substance
        /\ u.luminous_intensity = v.luminous_intensity
    BY <1>2 DEF UnitEqual, Key, Fields
  <2>2. (IF u.radian THEN 1 ELSE 0) = (IF v.radian THEN 1 ELSE 0)
    BY <1>2 DEF UnitEqual, Key
  <2>3. u.radian = v.radian
    BY <2>2 DEF UnitSet
  <2>. QED  BY <2>1, <2>3 DEF UnitSet
<1>. QED  BY <1>1, <1>2

(* The entries of the registry. *)
LEMMA RegistryEntries ==
  /\ typeOfUnit["W"] = Watt /\ typeOfUnit["N"] = Newton
  /\ typeOfUnit["J"] = Joule /\ typeOfUnit["V"] = Volt
  /\ typeOfUnit["rad"] = Radian
BY Zenon DEF typeOfUnit, UnitNames

(* The named units are units with integer exponents. *)
LEMMA NamedUnitsAreUnits ==
  \A n \in UnitNames : typeOfUnit[n] \in UnitSet(Int)
<1>1. {Watt, Newton, Joule, Volt, Radian} \subseteq UnitSet(Int)
  BY DEF Watt, Newton, Joule, Volt, Radian, Create, UnitSet
<1>. QED  BY <1>1, RegistryEntries DEF UnitNames

(* No two names of the HAL registry typeOfUnit (HALFeatures.hpp) denote  *)
(* units that SIUnit::operator== calls equal.                             *)
THEOREM NamedUnitsAreDistinct == NamedUnitsDistinct
<1>1. \A x, y \in UnitNames : x # y => typeOfUnit[x] # typeOfUnit[y]
  <2>1. Watt # Newton /\ Watt # Joule /\ Watt # Volt /\ Watt # Radian
        /\ Newton # Joule /\ Newton # Volt /\ Newton # Radian
        /\ Joule # Volt /\ Joule # Radian /\ Volt # Radian
    BY DEF Watt, Newton, Joule, Volt, Radian, Create
  <2>. QED  BY <2>1, RegistryEntries DEF UnitNames
<1>. QED  BY <1>1, NamedUnitsAreUnits, UnitEqualIsIdentity DEF NamedUnitsDistinct

====
