------------------------------- MODULE SIUnit -------------------------------
(***************************************************************************)
(* The physical-unit value type of the framework (struct SIUnit) and the   *)
(* named units built from it.  An SIUnit is a record of the seven SI base  *)
(* unit exponents and a radian flag; it is compared with the defaulted     *)
(* operator==, member by member.  The module also holds the unit registry *)
(* of the HAL (typeOfUnit).  No operator here is recursive, so the module can be     *)
(* used by modules that are proved about.                                  *)
(***************************************************************************)
EXTENDS Integers

(* The members of struct SIUnit, in declaration order. *)
Fields == <<"length", "mass", "time", "electric_current",
            "thermodynamic_temperature", "amount_of_substance",
            "luminous_intensity", "radian">>

(* The set of all SIUnit values whose exponents lie in the set E. *)
UnitSet(E) ==
  [length : E, mass : E, time : E, electric_current : E,
   thermodynamic_temperature : E, amount_of_substance : E,
   luminous_intensity : E, radian : BOOLEAN]

(* SIUnit::create<...>(): the only way to build a unit; no legality rule  *)
(* is active in this revision, so every combination is accepted.          *)
Create(l, m, t, e, th, a, li, r) ==
  [length |-> l, mass |-> m, time |-> t, electric_current |-> e,
   thermodynamic_temperature |-> th, amount_of_substance |-> a,
   luminous_intensity |-> li, radian |-> r]

(* SIUnit::create() with all template arguments defaulted. *)
Dimensionless == Create(0, 0, 0, 0, 0, 0, 0, FALSE)

(* The named units. *)
Watt   == Create(2, 1, -3, 0, 0, 0, 0, FALSE)
Newton == Create(1, 1, -2, 0, 0, 0, 0, FALSE)
Joule  == Create(2, 1, -2, 0, 0, 0, 0, FALSE)
(* Mutant: volt declared without its electric-current exponent. *)
VoltNoCurrent == Create(2, 1, -3, 0, 0, 0, 0, FALSE)
Volt   == Create(2, 1, -3, -1, 0, 0, 0, FALSE)
Radian == Create(0, 0, 0, 0, 0, 0, 0, TRUE)

(* The unit registry of the HAL: short unit names to units. *)
UnitNames == {"W", "N", "J", "V", "rad"}
typeOfUnit ==
  [n \in UnitNames |->
     CASE n = "W"   -> Watt
       [] n = "N"   -> Newton
       [] n = "J"   -> Joule
       [] n = "V"   -> Volt
       [] n = "rad" -> Radian]

(* The i-th member of u as an integer; bool compares as false < true. *)
Key(u, i) ==
  IF i = 8 THEN (IF u.radian THEN 1 ELSE 0) ELSE u[Fields[i]]

(* The defaulted operator== : memberwise equality. *)
UnitEqual(u, v) == \A i \in 1..8 : Key(u, i) = Key(v, i)

(* No two names of the HAL unit registry denote equal units under        *)
(* operator==: a watt signal can never be taken for a volt signal by the  *)
(* unit check of a connection.                                             *)
NamedUnitsDistinct ==
  \A x, y \in UnitNames :
     x # y => ~UnitEqual(typeOfUnit[x], typeOfUnit[y])

=============================================================================
